---- MODULE Spec2Model ----
(***************************************************************************)
(* Model of the html-parser-generator service: the coalescing coordinator  *)
(* (ParserService), the persistent store (DiskParserStorage) and the       *)
(* asynchronous steps between them.  Every `await` of the TypeScript code  *)
(* is a suspension point: the code before it and the code after it are     *)
(* separate atomic actions, and the completion of an I/O operation (store  *)
(* read, store write, generator call) is an action of its own.             *)
(***************************************************************************)
EXTENDS Integers, Sequences, FiniteSets, TLC

(***************************************************************************)
(* Bounds and input sets.                                                  *)
(***************************************************************************)
MaxReq == 2

Reqs == 1..MaxReq

\* URL patterns are strings, modelled as sequences of one-character strings.
Patterns == { <<"a">>, <<"b", "/", "c">> }

\* parser code a generator invocation may return
Codes == { "p1", "p2" }

\* messages of the errors the generator may raise
GenErrors == { <<"timeout">>, <<"rate limit">> }

\* messages of the errors fs.writeFile may raise
FsErrors == { <<"ENOSPC">> }

(***************************************************************************)
(* DiskParserStorage.getParserFilePath: the file name a pattern is stored  *)
(* under.                                                                  *)
(***************************************************************************)
SafeChars ==
    { "a", "b", "c", "d", "e", "f", "g", "h", "i", "j", "k", "l", "m",
      "n", "o", "p", "q", "r", "s", "t", "u", "v", "w", "x", "y", "z",
      "A", "B", "C", "D", "E", "F", "G", "H", "I", "J", "K", "L", "M",
      "N", "O", "P", "Q", "R", "S", "T", "U", "V", "W", "X", "Y", "Z",
      "0", "1", "2", "3", "4", "5", "6", "7", "8", "9", ".", "-" }

\* variant: the dot is replaced as well, .replace(/[^a-zA-Z0-9-]/g, '_')
ReplaceUnsafeAndDots(s) ==
    [i \in 1..Len(s) |-> IF s[i] \in SafeChars \ {"."} THEN s[i] ELSE "_"]

\* .replace(/[^a-zA-Z0-9.-]/g, '_')
ReplaceUnsafe(s) ==
    [i \in 1..Len(s) |-> IF s[i] \in SafeChars THEN s[i] ELSE "_"]

RECURSIVE CollapseUnderscores(_)
\* .replace(/_+/g, '_')
CollapseUnderscores(s) ==
    IF Len(s) <= 1 THEN s
    ELSE IF s[1] = "_" /\ s[2] = "_" THEN CollapseUnderscores(Tail(s))
    ELSE <<s[1]>> \o CollapseUnderscores(Tail(s))

\* .replace(/^_|_$/g, '')
TrimUnderscore(s) ==
    LET t == IF Len(s) > 0 /\ s[1] = "_" THEN Tail(s) ELSE s
    IN  IF Len(t) > 0 /\ t[Len(t)] = "_" THEN SubSeq(t, 1, Len(t) - 1) ELSE t

getParserFilePath(urlPattern) ==
    TrimUnderscore(CollapseUnderscores(ReplaceUnsafe(urlPattern))) \o <<".json">>

Files == { getParserFilePath(k) : k \in Patterns }

(***************************************************************************)
(* Values.                                                                 *)
(***************************************************************************)
\* `null` / `undefined`
Null == [null |-> TRUE]

\* StoredParser built by DiskParserStorage.set
StoredParser(urlPattern, parser, createdAt) ==
    [urlPattern |-> urlPattern, parser |-> parser, createdAt |-> createdAt]

\* the ParserResponse literal returned by getParser on a cache hit
CachedResponse(existingParser, urlPattern) ==
    [parser |-> existingParser.parser, createdAt |-> existingParser.createdAt,
     cached |-> TRUE, urlPattern |-> urlPattern]

\* the ParserResponse literal returned by performParserGeneration
GeneratedResponse(parser, urlPattern) ==
    [parser |-> parser.parser, createdAt |-> parser.createdAt,
     cached |-> FALSE, urlPattern |-> urlPattern]

\* an Error object: where it was constructed and its message
ErrorValue(raisedBy, message) == [raisedBy |-> raisedBy, message |-> message]

\* getParser: throw new Error('URL and HTML are required')
InputError == ErrorValue("getParser", <<"URL and HTML are required">>)

\* an ApiError object: an Error that carries the HTTP status of the response
ApiError(statusCode, message) ==
    [raisedBy |-> "route", message |-> message, statusCode |-> statusCode]

\* POST /parse: throw new ApiError(400, { error: 'Missing required fields: ...' })
MissingFieldsError ==
    ApiError(400, <<"Missing required fields: shortened_url and scrape are required">>)

\* err instanceof ApiError
IsApiError(error) == "statusCode" \in DOMAIN error

\* variant: the error handler answers every error with status 500
HttpStatusAlways500(outcome) == IF outcome.ok THEN 200 ELSE 500

\* the status of the HTTP response: res.json on success, else the error handler
\* (err.statusCode for an ApiError, 500 for any other error)
HttpStatus(outcome) ==
    IF outcome.ok THEN 200
    ELSE IF IsApiError(outcome.error) THEN outcome.error.statusCode
    ELSE 500

\* DiskParserStorage.set: throw new Error(`Cannot save parser: ${error.message}`)
SaveError(fsMessage) ==
    ErrorValue("DiskParserStorage.set", <<"Cannot save parser: ">> \o fsMessage)

\* variant: the caught error is rethrown as it is
WrapErrorVerbatim(error) == error

\* performParserGeneration: throw new Error(`Failed to generate parser: ${error.message}`)
WrapError(error) ==
    ErrorValue("performParserGeneration",
               <<"Failed to generate parser: ">> \o error.message)

\* a settled promise / a finished call: fulfilled with a value or rejected with an error
Fulfilled(value) == [ok |-> TRUE, value |-> value, error |-> Null]

Rejected(error) == [ok |-> FALSE, value |-> Null, error |-> error]

(***************************************************************************)
(* JavaScript Map operations (Map.set, Map.delete); Map.get(k) is m[k] for *)
(* k \in DOMAIN m and undefined otherwise.                                 *)
(***************************************************************************)
MapSet(m, k, v) == [x \in DOMAIN m \cup {k} |-> IF x = k THEN v ELSE m[x]]

MapDelete(m, k) == [x \in DOMAIN m \ {k} |-> m[x]]

EmptyMap == [x \in {} |-> Null]

(***************************************************************************)
(* Strings are sequences of one-character strings.  String operations of   *)
(* JavaScript used by generateUrlPattern and isLikelyId.                   *)
(***************************************************************************)
LowerLetters == {"a", "b", "c", "d", "e", "f", "g", "h", "i", "j", "k", "l", "m", "n", "o",
      "p", "q", "r", "s", "t", "u", "v", "w", "x", "y", "z"}

UpperLetters == {"A", "B", "C", "D", "E", "F", "G", "H", "I", "J", "K", "L", "M", "N", "O",
      "P", "Q", "R", "S", "T", "U", "V", "W", "X", "Y", "Z"}

Digits == {"0", "1", "2", "3", "4", "5", "6", "7", "8", "9"}

HexDigits == Digits \cup {"a", "b", "c", "d", "e", "f", "A", "B", "C", "D", "E", "F"}

\* the character \x60
GraveAccent == "\\x60"

\* the characters \x20-\x7E, in code order
PrintableAscii ==
    << " ", "!", "\"", "#", "$", "%", "&", "'", "(", ")", "*", "+",
       ",", "-", ".", "/", "0", "1", "2", "3", "4", "5", "6", "7",
       "8", "9", ":", ";", "<", "=", ">", "?", "@", "A", "B", "C",
       "D", "E", "F", "G", "H", "I", "J", "K", "L", "M", "N", "O",
       "P", "Q", "R", "S", "T", "U", "V", "W", "X", "Y", "Z", "[",
       "\\", "]", "^", "_", GraveAccent, "a", "b", "c", "d", "e", "f", "g",
       "h", "i", "j", "k", "l", "m", "n", "o", "p", "q", "r", "s",
       "t", "u", "v", "w", "x", "y", "z", "{", "|", "}", "~" >>

PrintableAsciiSet == { PrintableAscii[i] : i \in 1..Len(PrintableAscii) }

\* s.startsWith(prefix)
StartsWith(s, prefix) ==
    Len(s) >= Len(prefix) /\ SubSeq(s, 1, Len(prefix)) = prefix

\* s.includes(c)
Includes(s, c) == \E i \in 1..Len(s) : s[i] = c

\* index of the first character of s that is in chars, Len(s) + 1 if there is none
FirstIndexOf(s, chars) ==
    IF \E i \in 1..Len(s) : s[i] \in chars
    THEN CHOOSE i \in 1..Len(s) :
             s[i] \in chars /\ \A j \in 1..(i - 1) : s[j] \notin chars
    ELSE Len(s) + 1

RECURSIVE Split(_, _)
\* s.split(separator), for a separator that is one character of the set chars
Split(s, chars) ==
    LET i == FirstIndexOf(s, chars)
    IN  IF i > Len(s) THEN <<s>>
        ELSE <<SubSeq(s, 1, i - 1)>> \o Split(SubSeq(s, i + 1, Len(s)), chars)

RECURSIVE Join(_, _)
\* parts.join(separator)
Join(parts, separator) ==
    IF parts = <<>> THEN <<>>
    ELSE IF Len(parts) = 1 THEN parts[1]
    ELSE parts[1] \o separator \o Join(Tail(parts), separator)

\* array.filter(predicate), for the predicate `segment.length > 0`
RECURSIVE FilterNonEmpty(_)
FilterNonEmpty(parts) ==
    IF parts = <<>> THEN <<>>
    ELSE IF Len(parts[1]) > 0 THEN <<parts[1]>> \o FilterNonEmpty(Tail(parts))
    ELSE FilterNonEmpty(Tail(parts))

\* c.toLowerCase() for one character
LowerChar(c) ==
    IF c \in UpperLetters
    THEN LET i == CHOOSE j \in 1..Len(PrintableAscii) : PrintableAscii[j] = c
         IN  PrintableAscii[i + 32]
    ELSE c

\* s.toLowerCase()
ToLowerCase(s) == [i \in 1..Len(s) |-> LowerChar(s[i])]

\* value of one hexadecimal digit
HexValue(c) ==
    LET i == CHOOSE j \in 1..Len(PrintableAscii) : PrintableAscii[j] = LowerChar(c)
    IN  IF c \in Digits THEN i - 17 ELSE i - 56

RECURSIVE DecimalValue(_)
\* value of a string of decimal digits
DecimalValue(s) ==
    IF s = <<>> THEN 0
    ELSE 10 * DecimalValue(SubSeq(s, 1, Len(s) - 1)) + HexValue(s[Len(s)])

(***************************************************************************)
(* `new URL(text)` for an http: or https: URL (WHATWG URL parsing), over   *)
(* printable ASCII input without userinfo, IPv6 or numeric hosts, and      *)
(* without backslashes.  It throws a TypeError when the host is empty or   *)
(* holds a forbidden character, or when the port is not a number up to     *)
(* 65535.                                                                  *)
(***************************************************************************)
HttpPrefix == <<"h", "t", "t", "p", ":", "/", "/">>

HttpsPrefix == <<"h", "t", "t", "p", "s", ":", "/", "/">>

\* forbidden host code points (printable ASCII part), without ':' which ends the host
ForbiddenHostChars ==
    { " ", "\"", "#", "%", "/", "<", ">", "?", "@", "[", "\\", "]", "^", GraveAccent,
      "{", "|", "}" }

\* the path percent-encode set (printable ASCII part)
PathEncodeSet == { " ", "\"", "<", ">", GraveAccent, "{", "}" }

\* "%XX" for a character of the path percent-encode set
PercentEncodeChar(c) ==
    LET code == 31 + CHOOSE j \in 1..Len(PrintableAscii) : PrintableAscii[j] = c
        hex == <<"0", "1", "2", "3", "4", "5", "6", "7", "8", "9",
                 "A", "B", "C", "D", "E", "F">>
    IN  <<"%", hex[(code \div 16) + 1], hex[(code % 16) + 1]>>

RECURSIVE PercentEncodePath(_)
PercentEncodePath(s) ==
    IF s = <<>> THEN <<>>
    ELSE (IF s[1] \in PathEncodeSet THEN PercentEncodeChar(s[1]) ELSE <<s[1]>>)
             \o PercentEncodePath(Tail(s))

RECURSIVE SkipSlashes(_)
\* the slashes after the scheme are skipped, however many there are
SkipSlashes(s) ==
    IF s # <<>> /\ s[1] = "/" THEN SkipSlashes(Tail(s)) ELSE s

RECURSIVE PathSegments(_, _)
\* the path state: single-dot segments are dropped, a double-dot segment
\* removes the segment before it, every other segment is percent-encoded
PathSegments(raw, done) ==
    IF raw = <<>> THEN done
    ELSE LET segment == raw[1]
             last == Len(raw) = 1
             popped == IF done = <<>> THEN done ELSE SubSeq(done, 1, Len(done) - 1)
         IN  IF segment = <<".", ".">>
             THEN PathSegments(Tail(raw), IF last THEN Append(popped, <<>>) ELSE popped)
             ELSE IF segment = <<".">>
             THEN PathSegments(Tail(raw), IF last THEN Append(done, <<>>) ELSE done)
             ELSE PathSegments(Tail(raw), Append(done, PercentEncodePath(segment)))

\* urlObj.pathname for the path as written (empty, or starting with a slash)
Pathname(rawPath) ==
    IF rawPath = <<>> THEN <<"/">>
    ELSE <<"/">> \o Join(PathSegments(Split(Tail(rawPath), {"/"}), <<>>), <<"/">>)

\* the port as the URL object reports it: empty for the default port of the scheme
UrlPort(text, portText) ==
    IF portText = <<>> THEN <<>>
    ELSE IF StartsWith(text, HttpsPrefix) /\ DecimalValue(portText) = 443 THEN <<>>
    ELSE IF StartsWith(text, HttpPrefix) /\ DecimalValue(portText) = 80 THEN <<>>
    ELSE portText

\* new URL(text): Null stands for the TypeError it throws
ParseUrl(text) ==
    LET afterScheme == IF StartsWith(text, HttpsPrefix)
                       THEN SubSeq(text, Len(HttpsPrefix) + 1, Len(text))
                       ELSE SubSeq(text, Len(HttpPrefix) + 1, Len(text))
        rest == SkipSlashes(afterScheme)
        authorityEnd == FirstIndexOf(rest, {"/", "?", "#"})
        authority == SubSeq(rest, 1, authorityEnd - 1)
        colon == FirstIndexOf(authority, {":"})
        host == SubSeq(authority, 1, colon - 1)
        portText == SubSeq(authority, colon + 1, Len(authority))
        afterAuthority == SubSeq(rest, authorityEnd, Len(rest))
        pathEnd == FirstIndexOf(afterAuthority, {"?", "#"})
        rawPath == SubSeq(afterAuthority, 1, pathEnd - 1)
        afterPath == SubSeq(afterAuthority, pathEnd, Len(afterAuthority))
        hashStart == FirstIndexOf(afterPath, {"#"})
        search == SubSeq(afterPath, 1, hashStart - 1)
        hash == SubSeq(afterPath, hashStart, Len(afterPath))
    IN  IF \/ host = <<>>
           \/ \E i \in 1..Len(host) : host[i] \in ForbiddenHostChars
           \/ \E i \in 1..Len(portText) : portText[i] \notin Digits
           \/ DecimalValue(portText) > 65535
        THEN Null
        ELSE [hostname |-> ToLowerCase(host),
              port |-> UrlPort(text, portText),
              pathname |-> Pathname(rawPath),
              search |-> IF Len(search) = 1 THEN <<>> ELSE search,
              hash |-> IF Len(hash) = 1 THEN <<>> ELSE hash]

\* normalizeUrl
normalizeUrl(url) ==
    IF StartsWith(url, HttpPrefix) \/ StartsWith(url, HttpsPrefix)
    THEN url
    ELSE HttpsPrefix \o url

(***************************************************************************)
(* decodeURIComponent: "%XX" sequences are decoded as UTF-8; a '%' that is *)
(* not followed by two hexadecimal digits, or bytes that do not start and  *)
(* continue a UTF-8 character, throw a URIError.  A decoded character      *)
(* outside printable ASCII is kept as one of two placeholder characters.   *)
(***************************************************************************)
UriError == ErrorValue("decodeURIComponent", <<"URI malformed">>)

\* a decoded character above \x7F
NonAsciiChar == "<non-ascii>"

\* a decoded character below \x20, or \x7F
ControlChar == "<control>"

\* the byte written as "%XX" at the start of s, -1 if s does not start so
PercentByte(s) ==
    IF Len(s) >= 3 /\ s[1] = "%" /\ s[2] \in HexDigits /\ s[3] \in HexDigits
    THEN 16 * HexValue(s[2]) + HexValue(s[3])
    ELSE -1

\* the number of continuation bytes after the first byte b of a UTF-8
\* character, -1 if b cannot start a character
ContinuationBytes(b) ==
    IF b < 0 THEN -1
    ELSE IF b < 128 THEN 0
    ELSE IF b \in 194..223 THEN 1
    ELSE IF b \in 224..239 THEN 2
    ELSE IF b \in 240..244 THEN 3
    ELSE -1

\* the "%XX" sequences at the start of s are the UTF-8 encoding of one character
WellFormedEscape(s) ==
    LET n == ContinuationBytes(PercentByte(s))
    IN  /\ n >= 0
        /\ Len(s) >= 3 * (n + 1)
        /\ \A j \in 1..n :
              PercentByte(SubSeq(s, 3 * j + 1, 3 * j + 3)) \in 128..191

\* the number of characters of s that encode its first character
EscapeLength(s) == 3 * (ContinuationBytes(PercentByte(s)) + 1)

\* the character the escape at the start of s decodes to
DecodedChar(s) ==
    LET b == PercentByte(s)
    IN  IF b >= 128 THEN NonAsciiChar
        ELSE IF b \in 32..126 THEN PrintableAscii[b - 31]
        ELSE ControlChar

\* the decoded string that starts with char and goes on with the decoded rest,
\* or the error thrown for the rest
DecodedAfter(char, rest) ==
    IF rest.ok THEN Fulfilled(<<char>> \o rest.value) ELSE rest

RECURSIVE decodeURIComponent(_)
decodeURIComponent(s) ==
    IF s = <<>> THEN Fulfilled(<<>>)
    ELSE IF s[1] # "%" THEN DecodedAfter(s[1], decodeURIComponent(Tail(s)))
    ELSE IF ~WellFormedEscape(s) THEN Rejected(UriError)
    ELSE DecodedAfter(DecodedChar(s),
                      decodeURIComponent(SubSeq(s, EscapeLength(s) + 1, Len(s))))

(***************************************************************************)
(* isLikelyEnglishWord and isLikelyId.                                     *)
(***************************************************************************)
\* the words SpellChecker.isMisspelled does not report (lower case)
EnglishWords ==
    { <<"a", "r", "t", "i", "c", "l", "e", "s">>,
      <<"u", "s", "e", "r", "s">>, <<"u", "s", "e", "r">>, <<"a", "b", "o", "u", "t">>, <<"c",
          "o", "n", "t", "a", "c", "t">>, <<"p", "r", "o", "f", "i", "l", "e">>, <<"p", "o",
          "s", "t", "s">>,
      <<"m", "y">>, <<"a", "w", "e", "s", "o", "m", "e">>, <<"p", "o", "s", "t">>, <<"w",
            "i", "k", "i">>, <<"i", "d">> }

isLikelyEnglishWord(segment) ==
    LET letterCount ==
            Cardinality({ i \in 1..Len(segment) :
                            segment[i] \in LowerLetters \cup UpperLetters })
    IN  IF 10 * letterCount < 7 * Len(segment) THEN FALSE
        ELSE ToLowerCase(segment) \in EnglishWords

\* commonPathWords
commonPathWords ==
    { <<"a", "b", "o", "u", "t">>,
      <<"c", "o", "n", "t", "a", "c", "t">>,
      <<"s", "e", "r", "v", "i", "c", "e", "s">>,
      <<"p", "r", "o", "d", "u", "c", "t", "s">>,
      <<"s", "u", "p", "p", "o", "r", "t">>,
      <<"h", "e", "l", "p">>,
      <<"l", "o", "g", "i", "n">>,
      <<"r", "e", "g", "i", "s", "t", "e", "r">>,
      <<"p", "r", "o", "f", "i", "l", "e">>,
      <<"a", "c", "c", "o", "u", "n", "t">>,
      <<"s", "e", "t", "t", "i", "n", "g", "s">>,
      <<"d", "a", "s", "h", "b", "o", "a", "r", "d">>,
      <<"a", "d", "m", "i", "n">>,
      <<"m", "a", "n", "a", "g", "e">>,
      <<"c", "r", "e", "a", "t", "e">>,
      <<"e", "d", "i", "t">>,
      <<"d", "e", "l", "e", "t", "e">>,
      <<"u", "p", "d", "a", "t", "e">>,
      <<"s", "e", "a", "r", "c", "h">>,
      <<"f", "i", "l", "t", "e", "r">>,
      <<"c", "a", "t", "e", "g", "o", "r", "y">>,
      <<"c", "a", "t", "e", "g", "o", "r", "i", "e", "s">>,
      <<"a", "r", "c", "h", "i", "v", "e">>,
      <<"a", "r", "c", "h", "i", "v", "e", "s">>,
      <<"d", "o", "w", "n", "l", "o", "a", "d">>,
      <<"d", "o", "w", "n", "l", "o", "a", "d", "s">>,
      <<"u", "p", "l", "o", "a", "d">>,
      <<"u", "p", "l", "o", "a", "d", "s">>,
      <<"m", "e", "d", "i", "a">>,
      <<"i", "m", "a", "g", "e", "s">>,
      <<"v", "i", "d", "e", "o", "s">>,
      <<"f", "i", "l", "e", "s">>,
      <<"d", "o", "c", "u", "m", "e", "n", "t">>,
      <<"d", "o", "c", "u", "m", "e", "n", "t", "s">>,
      <<"r", "e", "p", "o", "r", "t">>,
      <<"r", "e", "p", "o", "r", "t", "s">>,
      <<"a", "n", "a", "l", "y", "t", "i", "c", "s">>,
      <<"s", "t", "a", "t", "i", "s", "t", "i", "c", "s">>,
      <<"m", "e", "t", "r", "i", "c", "s">>,
      <<"d", "a", "s", "h", "b", "o", "a", "r", "d">>,
      <<"o", "v", "e", "r", "v", "i", "e", "w">>,
      <<"s", "u", "m", "m", "a", "r", "y">>,
      <<"d", "e", "t", "a", "i", "l", "s">>,
      <<"p", "r", "e", "v", "i", "e", "w">>,
      <<"h", "i", "s", "t", "o", "r", "y">>,
      <<"t", "i", "m", "e", "l", "i", "n", "e">>,
      <<"c", "a", "l", "e", "n", "d", "a", "r">>,
      <<"s", "c", "h", "e", "d", "u", "l", "e">>,
      <<"e", "v", "e", "n", "t", "s">>,
      <<"n", "o", "t", "i", "f", "i", "c", "a", "t", "i", "o", "n", "s">>,
      <<"m", "e", "s", "s", "a", "g", "e", "s">>,
      <<"i", "n", "b", "o", "x">>,
      <<"o", "u", "t", "b", "o", "x">>,
      <<"t", "r", "a", "s", "h">>,
      <<"r", "e", "c", "y", "c", "l", "e">>,
      <<"b", "a", "c", "k", "u", "p">>,
      <<"r", "e", "s", "t", "o", "r", "e">>,
      <<"e", "x", "p", "o", "r", "t">>,
      <<"i", "m", "p", "o", "r", "t">>,
      <<"s", "y", "n", "c">>,
      <<"c", "o", "n", "n", "e", "c", "t">>,
      <<"d", "i", "s", "c", "o", "n", "n", "e", "c", "t">>,
      <<"c", "o", "n", "f", "i", "g", "u", "r", "e">>,
      <<"c", "o", "n", "f", "i", "g", "u", "r", "a", "t", "i", "o", "n">>,
      <<"p", "r", "e", "f", "e", "r", "e", "n", "c", "e", "s">>,
      <<"o", "p", "t", "i", "o", "n", "s">>,
      <<"a", "d", "v", "a", "n", "c", "e", "d">>,
      <<"s", "e", "c", "u", "r", "i", "t", "y">>,
      <<"p", "r", "i", "v", "a", "c", "y">>,
      <<"t", "e", "r", "m", "s">>,
      <<"c", "o", "n", "d", "i", "t", "i", "o", "n", "s">>,
      <<"p", "o", "l", "i", "c", "y">>,
      <<"p", "o", "l", "i", "c", "i", "e", "s">>,
      <<"l", "e", "g", "a", "l">>,
      <<"c", "o", "p", "y", "r", "i", "g", "h", "t">>,
      <<"t", "r", "a", "d", "e", "m", "a", "r", "k">>,
      <<"p", "a", "t", "e", "n", "t">>,
      <<"l", "i", "c", "e", "n", "s", "e">>,
      <<"l", "i", "c", "e", "n", "s", "e", "s">>,
      <<"a", "g", "r", "e", "e", "m", "e", "n", "t">>,
      <<"c", "o", "n", "t", "r", "a", "c", "t">> }

RECURSIVE MatchesPascalGroups(_, _)
\* /^([A-Z][a-z]+)+[A-Z]?$/, matched from the left; seen: a group has been matched
MatchesPascalGroups(s, seen) ==
    IF s = <<>> THEN seen
    ELSE IF Len(s) = 1 THEN seen /\ s[1] \in UpperLetters
    ELSE IF s[1] \in UpperLetters /\ s[2] \in LowerLetters
    THEN LET next == FirstIndexOf(Tail(s), PrintableAsciiSet \ LowerLetters) + 1
         IN  MatchesPascalGroups(SubSeq(s, next, Len(s)), TRUE)
    ELSE FALSE

\* variant: a single capitalized word is split only if the dictionary does not know it
IsCapitalizedWordUnknown(s) ==
    /\ Len(s) >= 2
    /\ s[1] \in UpperLetters
    /\ \A i \in 2..Len(s) : s[i] \in LowerLetters
    /\ ~isLikelyEnglishWord(s)

\* /^[A-Z][a-z]+$/
IsCapitalizedWord(s) ==
    /\ Len(s) >= 2
    /\ s[1] \in UpperLetters
    /\ \A i \in 2..Len(s) : s[i] \in LowerLetters

RECURSIVE SplitBeforeUpper(_)
\* s.split(/(?=[A-Z])/)
SplitBeforeUpper(s) ==
    IF Len(s) <= 1 THEN <<s>>
    ELSE LET i == FirstIndexOf(Tail(s), UpperLetters) + 1
         IN  IF i > Len(s) THEN <<s>>
             ELSE <<SubSeq(s, 1, i - 1)>> \o SplitBeforeUpper(SubSeq(s, i, Len(s)))

\* the body of isLikelyId after urlSegment = decodeURIComponent(urlSegment)
isLikelyIdDecoded(urlSegment) ==
    LET lowerSegment == ToLowerCase(urlSegment)
        words == IF Includes(urlSegment, "-") THEN Split(urlSegment, {"-"})
                 ELSE IF Includes(urlSegment, "_") \/ Includes(urlSegment, ".")
                 THEN Split(urlSegment, {"_", "."})
                 ELSE IF IsCapitalizedWord(urlSegment) THEN SplitBeforeUpper(urlSegment)
                 ELSE <<>>
    IN  IF \E i \in 1..Len(urlSegment) : urlSegment[i] \notin PrintableAsciiSet
        THEN TRUE
        ELSE IF Len(urlSegment) < 8 THEN ~isLikelyEnglishWord(urlSegment)
        ELSE IF lowerSegment \in commonPathWords THEN FALSE
        ELSE IF \/ Includes(urlSegment, "-")
                \/ MatchesPascalGroups(urlSegment, FALSE)
                \/ Includes(urlSegment, "_")
                \/ Includes(urlSegment, ".")
        THEN IF /\ ~Includes(urlSegment, "-")
                /\ ~Includes(urlSegment, "_")
                /\ ~Includes(urlSegment, ".")
                /\ IsCapitalizedWord(urlSegment)
                /\ Len(words) = 1
             THEN TRUE
             ELSE \E i \in 1..Len(words) : ~isLikelyEnglishWord(words[i])
        ELSE IF /\ Len(urlSegment) >= 8
                /\ \A i \in 1..Len(urlSegment) :
                      urlSegment[i] \in LowerLetters \cup UpperLetters \cup Digits
                /\ \E i \in 1..Len(urlSegment) :
                      urlSegment[i] \notin LowerLetters \cup {"-"}
        THEN TRUE
        ELSE urlSegment = lowerSegment /\ ~isLikelyEnglishWord(urlSegment)

\* isLikelyId: the decoding may throw
isLikelyId(urlSegment) ==
    LET decoded == decodeURIComponent(urlSegment)
    IN  IF decoded.ok THEN Fulfilled(isLikelyIdDecoded(decoded.value)) ELSE decoded

(***************************************************************************)
(* generateUrlPattern.                                                     *)
(***************************************************************************)
IdToken == <<"{", "i", "d", "}">>

\* variant: a UUID segment gets the same placeholder as an id segment
UuidTokenSameAsId == <<"{", "i", "d", "}">>

UuidToken == <<"{", "u", "u", "i", "d", "}">>

\* /^\d+$/
IsDecimal(segment) ==
    Len(segment) >= 1 /\ \A i \in 1..Len(segment) : segment[i] \in Digits

\* /^[a-f0-9-]{8,}$/
IsHexAndHyphens(segment) ==
    /\ Len(segment) >= 8
    /\ \A i \in 1..Len(segment) : segment[i] \in Digits \cup {"a", "b", "c", "d", "e", "f", "-"}

\* variant: the length rule is tried before the hex-and-hyphen rule
ClassifySegmentLengthFirst(segment) ==
    IF IsDecimal(segment) THEN Fulfilled(IdToken)
    ELSE IF Len(segment) >= 20 THEN Fulfilled(IdToken)
    ELSE IF IsHexAndHyphens(segment) THEN Fulfilled(UuidToken)
    ELSE LET likelyId == isLikelyId(segment)
         IN  IF ~likelyId.ok THEN likelyId
             ELSE IF likelyId.value THEN Fulfilled(IdToken)
             ELSE Fulfilled(segment)

\* the callback of segments.map: the token of one segment, or the error thrown
ClassifySegment(segment) ==
    IF IsDecimal(segment) THEN Fulfilled(IdToken)
    ELSE IF IsHexAndHyphens(segment) THEN Fulfilled(UuidToken)
    ELSE IF Len(segment) >= 20 THEN Fulfilled(IdToken)
    ELSE LET likelyId == isLikelyId(segment)
         IN  IF ~likelyId.ok THEN likelyId
             ELSE IF likelyId.value THEN Fulfilled(IdToken)
             ELSE Fulfilled(segment)

\* the tokens so far: the token of one segment before the tokens of the
\* segments after it, or the first error thrown
TokenBefore(first, rest) ==
    IF ~first.ok THEN first
    ELSE IF rest.ok THEN Fulfilled(<<first.value>> \o rest.value)
    ELSE rest

RECURSIVE MapSegments(_)
\* segments.map(...): the tokens, or the first error thrown by the callback
MapSegments(segments) ==
    IF segments = <<>> THEN Fulfilled(<<>>)
    ELSE TokenBefore(ClassifySegment(segments[1]), MapSegments(Tail(segments)))

\* new URL(...) throws
InvalidUrlError == ErrorValue("URL", <<"Invalid URL">>)

\* variant: the catch block rethrows
CatchRethrows(url, error) == Rejected(error)

\* catch (error) { logger.error(...); return url; }
Catch(url, error) == Fulfilled(url)

\* variant: the port is kept in the pattern
PatternHostWithPort(urlObj) ==
    urlObj.hostname \o (IF urlObj.port = <<>> THEN <<>> ELSE <<":">> \o urlObj.port)

\* ${urlObj.hostname}
PatternHost(urlObj) == urlObj.hostname

\* one call of generateUrlPattern: how it returned and the error it logged
generateUrlPatternCall(url) ==
    LET urlObj == ParseUrl(normalizeUrl(url))
    IN  IF urlObj = Null
        THEN [returned |-> Catch(url, InvalidUrlError), logged |-> InvalidUrlError]
        ELSE LET segments == FilterNonEmpty(Split(urlObj.pathname, {"/"}))
                 patternSegments == MapSegments(segments)
             IN  IF ~patternSegments.ok
                 THEN [returned |-> Catch(url, patternSegments.error),
                       logged |-> patternSegments.error]
                 ELSE LET suffix == IF Len(patternSegments.value) > 0
                                      THEN <<"/">> \o Join(patternSegments.value, <<"/">>)
                                      ELSE <<>>
                      IN  [returned |-> Fulfilled(PatternHost(urlObj) \o suffix),
                           logged |-> Null]

\* the value generateUrlPattern returns
generateUrlPattern(url) == generateUrlPatternCall(url).returned.value

(***************************************************************************)
(* The URLs given to generateUrlPattern, as they are written: scheme,      *)
(* host, port, path, query string and fragment, each possibly empty.       *)
(***************************************************************************)
UrlOf(scheme, host, port, path, query, fragment) ==
    [scheme |-> scheme, host |-> host, port |-> port, path |-> path,
     query |-> query, fragment |-> fragment]

\* the string passed to generateUrlPattern
UrlText(u) == u.scheme \o u.host \o u.port \o u.path \o u.query \o u.fragment

Schemes == { <<>>, HttpPrefix, HttpsPrefix }

ExampleHost == <<"e", "x", "a", "m", "p", "l", "e", ".", "c", "o", "m">>

PortsWritten == { <<>>, <<":", "8", "0", "8", "0">> }

Queries == { <<>>, <<"?", "p", "a", "g", "e", "=", "1">> }

Fragments == { <<>>, <<"#", "t", "o", "p">> }

\* the UUID of the test 'should replace UUID-like segments with {uuid}'
UuidSegment == <<"1", "2", "3", "e", "4", "5", "6", "7", "-", "e", "8", "9", "b", "-", "1",
      "2", "d", "3", "-", "a", "4", "5", "6", "-", "4", "2", "6", "6", "1", "4", "1", "7",
      "4", "0", "0", "0">>

\* path segments of every kind the classifier tells apart
SampleSegments ==
    { <<"A", "r", "t", "i", "c", "l", "e", "s">>,
      <<"a", "r", "t", "i", "c", "l", "e", "s">>,
      <<"m", "y", "_", "a", "w", "e", "s", "o", "m", "e", "_", "p", "o", "s", "t">>,
      <<"m", "y", ".", "a", "w", "e", "s", "o", "m", "e", ".", "p", "o", "s", "t">>,
      <<"M", "y", "Q", "z", "x", "v", "P", "o", "s", "t">>,
      <<"m", "y", "_", "q", "z", "x", "v", "_", "p", "o", "s", "t">>,
      <<"t", "h", "i", "s", "i", "s", "v", "e", "r", "y", "l", "o", "n", "g", "s", "e", "g",
          "m", "e", "n", "t", "%", "z", "z">>,
      <<"1", "2", "3">>, <<"4", "5", "6">>, <<"1", "2", "3", "4", "5", "6", "7", "8">>,
      <<"a", "b", "c", "1", "2", "3", "d", "e", "f", "4", "5", "6">>, <<"d", "e", "a", "d",
            "b", "e", "e", "f">>,
      <<"1", "2", "3", "e", "4", "5", "6", "7", "e", "8", "9", "b", "1", "2", "d", "3", "a",
            "4", "5", "6", "4", "2", "6", "6", "1", "4", "1", "7", "4", "0", "0", "0">>,
            UuidSegment,
      <<"t", "h", "i", "s", "i", "s", "v", "e", "r", "y", "l", "o", "n", "g", "s", "e", "g",
            "m", "e", "n", "t">>, <<"v", "e", "r", "y", "l", "o", "n", "g", "s", "e", "g",
            "m", "e", "n", "t", "n", "a", "m", "e">>,
      <<"a", "b", "o", "u", "t">>, <<"c", "o", "n", "t", "a", "c", "t">>, <<"p", "r", "o",
            "f", "i", "l", "e">>,
      <<"P", "r", "o", "m", "e", "t", "h", "e", "u", "s">>, <<"M", "y", "A", "w", "e", "s",
            "o", "m", "e", "P", "o", "s", "t">>,
      <<"m", "y", "-", "a", "w", "e", "s", "o", "m", "e", "-", "p", "o", "s", "t">>, <<"j",
            "o", "h", "n", "-", "d", "o", "e", "-", "1", "2", "3", "4", "5">>,
      <<"x", "q", "7">>, <<"a", " ", "b">>, <<"%", "C", "3", "%", "A", "9">>, <<"%", "E",
            "7", "%", "9", "4", "%", "A", "8", "%", "E", "6", "%", "8", "8", "%", "B", "7",
            "1", "2", "3">>, <<"a", "%", "z", "z">>, <<"%", "E", "7">> }

\* paths that differ in empty and dot segments only
SlashPaths ==
    { <<>>, <<"/">>, <<"/", "/", "/">>, <<"/", "u", "s", "e", "r", "s", "/", "1", "2", "3",
          "/">>, <<"/", "/", "u", "s", "e", "r", "s", "/", "/", "/", "1", "2", "3">>,
      <<"/", "u", "s", "e", "r", "s", "/", "a", "%", "z", "z", "/">>, <<"/", "u", "s", "e",
            "r", "s", "/", "/", ".", ".">>, <<"/", "u", "s", "e", "r", "s", "/", ".", ".">> }

\* one URL with every combination of scheme, port, query string and fragment
VariedUrls ==
    { UrlOf(s, ExampleHost, p, <<"/", "u", "s", "e", "r", "s", "/", "1", "2", "3">>, q, f) :
        s \in Schemes, p \in PortsWritten, q \in Queries, f \in Fragments }

\* a URL whose segment cannot be decoded, with and without scheme and query string
UndecodableUrls ==
    { UrlOf(s, ExampleHost, <<>>, <<"/", "u", "s", "e", "r", "s", "/", "a", "%", "z", "z">>,
          q, <<>>) :
        s \in Schemes, q \in Queries }

SlashUrls ==
    { UrlOf(HttpsPrefix, ExampleHost, <<>>, path, <<>>, <<>>) : path \in SlashPaths }

SegmentUrls ==
    { UrlOf(HttpsPrefix, ExampleHost, <<>>, <<"/", "u", "s", "e", "r", "s", "/">> \o segment,
          <<>>, <<>>) :
        segment \in SampleSegments }

\* strings new URL rejects, an upper-case host and a default port
OtherUrls ==
    { UrlOf(HttpsPrefix, <<"e", "n", ".", "w", "i", "k", "i", "p", "e", "d", "i", "a", ".", "o", "r", "g">>, <<>>,
            <<"/", "w", "i", "k", "i", "/", "P", "r", "o", "m", "e", "t", "h", "e", "u", "s">>, <<>>, <<>>),
      UrlOf(HttpsPrefix, <<>>, <<>>, <<>>, <<>>, <<>>),
      UrlOf(<<>>, <<>>, <<>>, <<>>, <<>>, <<>>),
      UrlOf(<<>>, <<"n", "o", "t", "-", "a", "-", "v", "a", "l", "i", "d", "-", "u", "r",
            "l">>, <<>>, <<>>, <<>>, <<>>),
      UrlOf(<<>>, <<"e", "x", "a", " ", "m", "p", "l", "e", ".", "c", "o", "m">>, <<>>, <<"/",
            "a", "b", "o", "u", "t">>, <<>>, <<>>),
      UrlOf(<<>>, ExampleHost, <<":", "9", "9", "9", "9", "9">>, <<"/", "a", "b", "o", "u",
            "t">>, <<>>, <<>>),
      UrlOf(HttpPrefix, ExampleHost, <<":", "8", "a">>, <<"/", "a", "b", "o", "u", "t">>,
            <<>>, <<>>),
      UrlOf(HttpsPrefix, ExampleHost, <<":", "4", "4", "3">>, <<"/", "a", "b", "o", "u",
            "t">>, <<>>, <<>>),
      UrlOf(HttpsPrefix, <<"E", "x", "a", "m", "p", "l", "e", ".", "C", "O", "M">>, <<>>,
            <<"/", "a", "b", "o", "u", "t">>, <<>>, <<>>),
      UrlOf(<<>>, <<"e", "n", ".", "w", "i", "k", "i", "p", "e", "d", "i", "a", ".", "o",
            "r", "g">>, <<>>, <<"/", "w", "i", "k", "i", "/", "P", "r", "o", "m", "e", "t",
            "h", "e", "u", "s">>, <<>>, <<>>) }

Urls == VariedUrls \cup UndecodableUrls \cup SlashUrls \cup SegmentUrls \cup OtherUrls

\* the two calls of generateUrlPattern that are compared
Slots == {"first", "second"}

(***************************************************************************)
(* State.                                                                  *)
(***************************************************************************)
VARIABLES
    pc,              \* per getParser call: where it is suspended
    urlPattern,      \* per call: const urlPattern = generateUrlPattern(url)
    noCache,         \* per call: options.no_cache
    existingParser,  \* per call: the value storage.get resolved with
    awaited,         \* per call: the generation (its owner's id) whose promise it awaits
    result,          \* per call: how the call's promise settled
    ongoingRequests, \* ParserService.ongoingRequests: pattern -> generation
    promise,         \* per generation: the promise of performParserGeneration
    store,           \* the storage directory: file name -> StoredParser
    genCalls,        \* per pattern: number of parserGenerator.generateParser calls so far
    now,             \* logical clock read by `new Date()`
    atIssue,         \* history, per call: what was the case when it was issued
    intact,          \* history: calls whose returned entry was read or written, no delete since
    sinceDone,       \* history: calls that succeeded, no delete of their pattern since
    url,             \* per compared call of generateUrlPattern: the URL given, as written
    pattern,         \* per compared call of generateUrlPattern: how it returned
    logged,          \* per compared call of generateUrlPattern: the error it logged
    calls,           \* the finished calls of the storage's own methods, in order
    listing          \* the getAll call in progress, Null if there is none

vars == <<pc, urlPattern, noCache, existingParser, awaited, result,
          ongoingRequests, promise, store, genCalls, now,
          atIssue, intact, sinceDone, url, pattern, logged, calls, listing>>

serviceVars == <<pc, urlPattern, noCache, existingParser, awaited, result,
                 ongoingRequests, promise, store, genCalls, now,
                 atIssue, intact, sinceDone>>

patternVars == <<url, pattern, logged>>

storageVars == <<calls, listing>>

callVars == <<urlPattern, noCache>>

histVars == <<atIssue, intact, sinceDone>>

Init ==
    /\ pc = [r \in Reqs |-> "idle"]
    /\ urlPattern = EmptyMap
    /\ noCache = EmptyMap
    /\ existingParser = EmptyMap
    /\ awaited = EmptyMap
    /\ result = EmptyMap
    /\ ongoingRequests = EmptyMap
    /\ promise = EmptyMap
    /\ store = EmptyMap
    /\ genCalls = [k \in Patterns |-> 0]
    /\ now = 0
    /\ atIssue = EmptyMap
    /\ intact = {}
    /\ sinceDone = {}
    /\ url = EmptyMap
    /\ pattern = EmptyMap
    /\ logged = EmptyMap
    /\ calls = <<>>
    /\ listing = Null

(***************************************************************************)
(* Derived views of the state.                                             *)
(***************************************************************************)
\* calls that have returned or thrown
Done == { r \in Reqs : pc[r] = "done" }

\* generations of pattern k whose generator call has not returned yet
GeneratorsInFlight(k) ==
    { g \in DOMAIN promise : urlPattern[g] = k /\ promise[g].state = "generating" }

\* calls coalesced on generation g: its owner and the calls that joined it
Batch(g) == { r \in DOMAIN awaited : awaited[r] = g }

\* variant: the read fails and get returns null although the file exists
StorageGetAlwaysNull(k) == Null

\* the content of a file JSON.parse rejects
Corrupt == [corrupt |-> TRUE]

\* DiskParserStorage.get: null when the file is absent or cannot be parsed,
\* else its parsed content
StorageGet(k) ==
    IF getParserFilePath(k) \notin DOMAIN store THEN Null
    ELSE IF store[getParserFilePath(k)] = Corrupt THEN Null
    ELSE store[getParserFilePath(k)]

(***************************************************************************)
(* The promise of one performParserGeneration call.                        *)
(***************************************************************************)
\* the generator has been called and has not returned
Generating == [state |-> "generating", parserCode |-> "", raised |-> Null, outcome |-> Null]

\* the generator returned parserCode; storage.set has been called
Storing(parserCode) ==
    [state |-> "storing", parserCode |-> parserCode, raised |-> Null, outcome |-> Null]

\* fs.writeFile wrote the file; its completion has not been processed yet
Written(parserCode, parser) ==
    [state |-> "written", parserCode |-> parserCode, raised |-> Null,
     outcome |-> Fulfilled(parser)]

\* the promise settled; raised is the error caught by the catch block, if any
Settled(parserCode, raised, outcome) ==
    [state |-> "settled", parserCode |-> parserCode, raised |-> raised, outcome |-> outcome]

(***************************************************************************)
(* ParserService.generateParser up to its first await: the lookup of the   *)
(* in-flight table, and on a miss the call of performParserGeneration      *)
(* (which runs up to the generator call) and the registration.             *)
(***************************************************************************)
\* variant: the in-flight table is never consulted
HasOngoingRequestNever(k) == FALSE

\* if (existingRequest)
HasOngoingRequest(k) == k \in DOMAIN ongoingRequests

\* variant: a forced regeneration does not join the generation in flight
generateParserForced(r, k) ==
    IF HasOngoingRequest(k) /\ r \in DOMAIN noCache
    THEN /\ awaited' = MapSet(awaited, r, ongoingRequests[k])
         /\ pc' = [pc EXCEPT ![r] = "awaitExisting"]
         /\ intact' = IF ongoingRequests[k] \in intact THEN intact \cup {r} ELSE intact
         /\ UNCHANGED <<ongoingRequests, promise, genCalls>>
    ELSE /\ promise' = MapSet(promise, r, Generating)
         /\ genCalls' = [genCalls EXCEPT ![k] = @ + 1]
         /\ ongoingRequests' = MapSet(ongoingRequests, k, r)
         /\ awaited' = MapSet(awaited, r, r)
         /\ pc' = [pc EXCEPT ![r] = "awaitOwn"]
         /\ UNCHANGED intact

generateParser(r, k) ==
    IF HasOngoingRequest(k)
    THEN /\ awaited' = MapSet(awaited, r, ongoingRequests[k])
         /\ pc' = [pc EXCEPT ![r] = "awaitExisting"]
         /\ intact' = IF ongoingRequests[k] \in intact THEN intact \cup {r} ELSE intact
         /\ UNCHANGED <<ongoingRequests, promise, genCalls>>
    ELSE /\ promise' = MapSet(promise, r, Generating)
         /\ genCalls' = [genCalls EXCEPT ![k] = @ + 1]
         /\ ongoingRequests' = MapSet(ongoingRequests, k, r)
         /\ awaited' = MapSet(awaited, r, r)
         /\ pc' = [pc EXCEPT ![r] = "awaitOwn"]
         /\ UNCHANGED intact

(***************************************************************************)
(* The promise of generation g settles with `outcome`.  The continuations  *)
(* of the calls awaiting it run as microtasks, before any other task: the  *)
(* owner's `finally` removes the registration and every call of the batch  *)
(* returns the value or rethrows the error.                                *)
(***************************************************************************)
\* variant: the registration is removed on failure only
OngoingAfterFinallyOnFailure(g, outcome) ==
    IF outcome.ok THEN ongoingRequests ELSE MapDelete(ongoingRequests, urlPattern[g])

\* variant: the registration is removed on success only
OngoingAfterFinallyOnSuccess(g, outcome) ==
    IF outcome.ok THEN MapDelete(ongoingRequests, urlPattern[g]) ELSE ongoingRequests

\* variant: the finally block clears the whole table
OngoingAfterFinallyClearsAll(g, outcome) == EmptyMap

\* finally { this.ongoingRequests.delete(urlPattern) }
OngoingAfterFinally(g, outcome) == MapDelete(ongoingRequests, urlPattern[g])

\* variant: a joined call wraps the error it receives once more
AwaitResultRewrapped(r, g, outcome) ==
    IF r # g /\ ~outcome.ok THEN Rejected(WrapError(outcome.error)) ELSE outcome

\* return await requestPromise / return await existingRequest, in call r
AwaitResult(r, g, outcome) == outcome

\* the owner's finally and the return of every call awaiting generation g
BatchReturns(g, outcome) ==
    /\ ongoingRequests' = OngoingAfterFinally(g, outcome)
    /\ pc' = [r \in Reqs |-> IF r \in Batch(g) THEN "done" ELSE pc[r]]
    /\ result' = [r \in DOMAIN result \cup Batch(g) |->
                     IF r \in Batch(g) THEN AwaitResult(r, g, outcome) ELSE result[r]]
    /\ sinceDone' = IF outcome.ok THEN sinceDone \cup Batch(g) ELSE sinceDone

(***************************************************************************)
(* Actions.                                                                *)
(***************************************************************************)
\* the next call id: calls are numbered in the order they are issued
NextCall(r) == pc[r] = "idle" /\ \A q \in Reqs : q < r => pc[q] # "idle"

\* history: the calls already finished and the store entry when a call for k is issued
IssueRecord(k) == [done |-> Done, stored |-> getParserFilePath(k) \in DOMAIN store]

\* getParser with a missing url or html: it throws before the pattern is derived
GetParserInvalid(r) ==
    /\ NextCall(r)
    /\ pc' = [pc EXCEPT ![r] = "done"]
    /\ result' = MapSet(result, r, Rejected(InputError))
    /\ UNCHANGED <<callVars, existingParser, awaited, ongoingRequests, promise,
                   store, genCalls, now, histVars>>
    /\ UNCHANGED <<patternVars, storageVars>>

\* POST /parse with a missing shortened_url or scrape: the handler throws the
\* ApiError before it calls getParser
PostParseInvalid(r) ==
    /\ NextCall(r)
    /\ pc' = [pc EXCEPT ![r] = "done"]
    /\ result' = MapSet(result, r, Rejected(MissingFieldsError))
    /\ UNCHANGED <<callVars, existingParser, awaited, ongoingRequests, promise,
                   store, genCalls, now, histVars>>
    /\ UNCHANGED <<patternVars, storageVars>>

\* getParser without no_cache, up to `await this.storage.get(urlPattern)`
GetParser(r, k) ==
    /\ NextCall(r)
    /\ urlPattern' = MapSet(urlPattern, r, k)
    /\ noCache' = MapSet(noCache, r, FALSE)
    /\ pc' = [pc EXCEPT ![r] = "storageGet"]
    /\ atIssue' = MapSet(atIssue, r, IssueRecord(k))
    /\ UNCHANGED <<existingParser, awaited, result, ongoingRequests, promise,
                   store, genCalls, now, intact, sinceDone>>
    /\ UNCHANGED <<patternVars, storageVars>>

\* getParser with no_cache: the store read is skipped, generateParser runs at once
GetParserNoCache(r, k) ==
    /\ NextCall(r)
    /\ urlPattern' = MapSet(urlPattern, r, k)
    /\ noCache' = MapSet(noCache, r, TRUE)
    /\ generateParser(r, k)
    /\ atIssue' = MapSet(atIssue, r, IssueRecord(k))
    /\ UNCHANGED <<existingParser, result, store, now, sinceDone>>
    /\ UNCHANGED <<patternVars, storageVars>>

\* the file read of storage.get completes
StorageGetCompletes(r) ==
    /\ pc[r] = "storageGet"
    /\ existingParser' = MapSet(existingParser, r, StorageGet(urlPattern[r]))
    /\ pc' = [pc EXCEPT ![r] = "gotParser"]
    /\ intact' = IF StorageGet(urlPattern[r]) # Null THEN intact \cup {r} ELSE intact
    /\ UNCHANGED <<callVars, awaited, result, ongoingRequests, promise,
                   store, genCalls, now, atIssue, sinceDone>>
    /\ UNCHANGED <<patternVars, storageVars>>

\* variant: the stored parser is ignored
IsCacheHitNever(r) == FALSE

\* if (existingParser)
IsCacheHit(r) == existingParser[r] # Null

\* getParser resumes after the await: if (existingParser) return { ..., cached: true }
ReturnCached(r) ==
    /\ pc[r] = "gotParser"
    /\ IsCacheHit(r)
    /\ pc' = [pc EXCEPT ![r] = "done"]
    /\ result' = MapSet(result, r,
                        Fulfilled(CachedResponse(existingParser[r], urlPattern[r])))
    /\ sinceDone' = sinceDone \cup {r}
    /\ UNCHANGED <<callVars, existingParser, awaited, ongoingRequests, promise,
                   store, genCalls, now, atIssue, intact>>
    /\ UNCHANGED <<patternVars, storageVars>>

\* getParser resumes after the await on a miss: return await this.generateParser(...)
CallGenerateParser(r) ==
    /\ pc[r] = "gotParser"
    /\ ~IsCacheHit(r)
    /\ generateParser(r, urlPattern[r])
    /\ UNCHANGED <<callVars, existingParser, result, store, now, atIssue, sinceDone>>
    /\ UNCHANGED <<patternVars, storageVars>>

\* parserGenerator.generateParser resolves; performParserGeneration calls storage.set
GeneratorSucceeds(g, parserCode) ==
    /\ g \in DOMAIN promise
    /\ promise[g].state = "generating"
    /\ promise' = [promise EXCEPT ![g] = Storing(parserCode)]
    /\ UNCHANGED <<pc, callVars, existingParser, awaited, result, ongoingRequests,
                   store, genCalls, now, histVars>>
    /\ UNCHANGED <<patternVars, storageVars>>

\* variant: a failed generation leaves a placeholder entry in the store
GeneratorFailsAndStores(g, message) ==
    /\ g \in DOMAIN promise
    /\ promise[g].state = "generating"
    /\ LET raised == ErrorValue("parserGenerator", message)
           outcome == Rejected(WrapError(raised))
       IN  /\ promise' = [promise EXCEPT ![g] = Settled("", raised, outcome)]
           /\ BatchReturns(g, outcome)
    /\ store' = MapSet(store, getParserFilePath(urlPattern[g]),
                       StoredParser(urlPattern[g], "", now))
    /\ UNCHANGED <<callVars, existingParser, awaited, genCalls, now, atIssue, intact>>
    /\ UNCHANGED <<patternVars, storageVars>>

\* parserGenerator.generateParser rejects; the catch block throws the wrapping Error
GeneratorFails(g, message) ==
    /\ g \in DOMAIN promise
    /\ promise[g].state = "generating"
    /\ LET raised == ErrorValue("parserGenerator", message)
           outcome == Rejected(WrapError(raised))
       IN  /\ promise' = [promise EXCEPT ![g] = Settled("", raised, outcome)]
           /\ BatchReturns(g, outcome)
    /\ UNCHANGED <<callVars, existingParser, awaited, store, genCalls, now,
                   atIssue, intact>>
    /\ UNCHANGED <<patternVars, storageVars>>

\* storage.set: fs.writeFile writes the file of the pattern
StorageSetWrites(g) ==
    /\ g \in DOMAIN promise
    /\ promise[g].state = "storing"
    /\ LET k == urlPattern[g]
           parser == StoredParser(k, promise[g].parserCode, now)
       IN  /\ store' = MapSet(store, getParserFilePath(k), parser)
           /\ promise' = [promise EXCEPT ![g] = Written(promise[g].parserCode, parser)]
    /\ now' = now + 1
    /\ intact' = intact \cup Batch(g)
    /\ UNCHANGED <<pc, callVars, existingParser, awaited, result, ongoingRequests,
                   genCalls, atIssue, sinceDone>>
    /\ UNCHANGED <<patternVars, storageVars>>

\* storage.set resolves; performParserGeneration returns { ..., cached: false }
StorageSetCompletes(g) ==
    /\ g \in DOMAIN promise
    /\ promise[g].state = "written"
    /\ LET outcome == Fulfilled(GeneratedResponse(promise[g].outcome.value, urlPattern[g]))
       IN  /\ promise' = [promise EXCEPT ![g] = Settled(promise[g].parserCode, Null, outcome)]
           /\ BatchReturns(g, outcome)
    /\ UNCHANGED <<callVars, existingParser, awaited, store, genCalls, now,
                   atIssue, intact>>
    /\ UNCHANGED <<patternVars, storageVars>>

\* variant: a failed write is logged and the generated parser is returned all the same
StorageSetFailsSwallowed(g, fsMessage) ==
    /\ g \in DOMAIN promise
    /\ promise[g].state = "storing"
    /\ LET raised == SaveError(fsMessage)
           parser == StoredParser(urlPattern[g], promise[g].parserCode, now)
           outcome == Fulfilled(GeneratedResponse(parser, urlPattern[g]))
       IN  /\ promise' = [promise EXCEPT ![g] = Settled(promise[g].parserCode, raised, outcome)]
           /\ BatchReturns(g, outcome)
    /\ UNCHANGED <<callVars, existingParser, awaited, store, genCalls, now,
                   atIssue, intact>>
    /\ UNCHANGED <<patternVars, storageVars>>

\* fs.writeFile fails; storage.set throws, the catch block throws the wrapping Error
StorageSetFails(g, fsMessage) ==
    /\ g \in DOMAIN promise
    /\ promise[g].state = "storing"
    /\ LET raised == SaveError(fsMessage)
           outcome == Rejected(WrapError(raised))
       IN  /\ promise' = [promise EXCEPT ![g] = Settled(promise[g].parserCode, raised, outcome)]
           /\ BatchReturns(g, outcome)
    /\ UNCHANGED <<callVars, existingParser, awaited, store, genCalls, now,
                   atIssue, intact>>
    /\ UNCHANGED <<patternVars, storageVars>>

\* variant: deleteParser also drops the in-flight registration of the pattern
DeleteParserCancels(k) ==
    /\ store' = MapDelete(store, getParserFilePath(k))
    /\ ongoingRequests' = MapDelete(ongoingRequests, k)
    /\ intact' = { r \in intact : urlPattern[r] # k }
    /\ sinceDone' = { r \in sinceDone : urlPattern[r] # k }
    /\ UNCHANGED <<pc, callVars, existingParser, awaited, result,
                   promise, genCalls, now, atIssue>>
    /\ UNCHANGED <<patternVars, storageVars>>

\* deleteParser -> storage.delete: unlink the file if it exists
DeleteParser(k) ==
    /\ store' = MapDelete(store, getParserFilePath(k))
    /\ intact' = { r \in intact : urlPattern[r] # k }
    /\ sinceDone' = { r \in sinceDone : urlPattern[r] # k }
    /\ UNCHANGED <<pc, callVars, existingParser, awaited, result, ongoingRequests,
                   promise, genCalls, now, atIssue>>
    /\ UNCHANGED <<patternVars, storageVars>>

Next ==
    \/ \E r \in Reqs : PostParseInvalid(r)
    \/ \E r \in Reqs : GetParserInvalid(r)
    \/ \E r \in Reqs, k \in Patterns : GetParser(r, k)
    \/ \E r \in Reqs, k \in Patterns : GetParserNoCache(r, k)
    \/ \E r \in Reqs : StorageGetCompletes(r)
    \/ \E r \in Reqs : ReturnCached(r)
    \/ \E r \in Reqs : CallGenerateParser(r)
    \/ \E g \in Reqs, c \in Codes : GeneratorSucceeds(g, c)
    \/ \E g \in Reqs, m \in GenErrors : GeneratorFails(g, m)
    \/ \E g \in Reqs : StorageSetWrites(g)
    \/ \E g \in Reqs : StorageSetCompletes(g)
    \/ \E g \in Reqs, m \in FsErrors : StorageSetFails(g, m)
    \/ \E k \in Patterns : DeleteParser(k)

Spec == Init /\ [][Next]_vars

(***************************************************************************)
(* The same service over two patterns whose file names coincide:           *)
(* getParserFilePath maps "h/{id}" (the pattern of h/123) and "h/id" to    *)
(* h_id.json.                                                              *)
(***************************************************************************)
CollidingPatterns == { <<"h", "/", "{", "i", "d", "}">>, <<"h", "/", "i", "d">> }

InitColliding ==
    /\ pc = [r \in Reqs |-> "idle"]
    /\ urlPattern = EmptyMap
    /\ noCache = EmptyMap
    /\ existingParser = EmptyMap
    /\ awaited = EmptyMap
    /\ result = EmptyMap
    /\ ongoingRequests = EmptyMap
    /\ promise = EmptyMap
    /\ store = EmptyMap
    /\ genCalls = [k \in CollidingPatterns |-> 0]
    /\ now = 0
    /\ atIssue = EmptyMap
    /\ intact = {}
    /\ sinceDone = {}
    /\ url = EmptyMap
    /\ pattern = EmptyMap
    /\ logged = EmptyMap
    /\ calls = <<>>
    /\ listing = Null

NextColliding ==
    \/ \E r \in Reqs : PostParseInvalid(r)
    \/ \E r \in Reqs : GetParserInvalid(r)
    \/ \E r \in Reqs, k \in CollidingPatterns : GetParser(r, k)
    \/ \E r \in Reqs, k \in CollidingPatterns : GetParserNoCache(r, k)
    \/ \E r \in Reqs : StorageGetCompletes(r)
    \/ \E r \in Reqs : ReturnCached(r)
    \/ \E r \in Reqs : CallGenerateParser(r)
    \/ \E g \in Reqs, c \in Codes : GeneratorSucceeds(g, c)
    \/ \E g \in Reqs, m \in GenErrors : GeneratorFails(g, m)
    \/ \E g \in Reqs : StorageSetWrites(g)
    \/ \E g \in Reqs : StorageSetCompletes(g)
    \/ \E g \in Reqs, m \in FsErrors : StorageSetFails(g, m)
    \/ \E k \in CollidingPatterns : DeleteParser(k)

SpecColliding == InitColliding /\ [][NextColliding]_vars

(***************************************************************************)
(* generateUrlPattern on its own: two URLs are drawn and the function is   *)
(* applied to each of them.                                                *)
(***************************************************************************)
PatternInit ==
    /\ pc = [r \in Reqs |-> "idle"]
    /\ urlPattern = EmptyMap
    /\ noCache = EmptyMap
    /\ existingParser = EmptyMap
    /\ awaited = EmptyMap
    /\ result = EmptyMap
    /\ ongoingRequests = EmptyMap
    /\ promise = EmptyMap
    /\ store = EmptyMap
    /\ genCalls = [k \in Patterns |-> 0]
    /\ now = 0
    /\ atIssue = EmptyMap
    /\ intact = {}
    /\ sinceDone = {}
    /\ url \in [Slots -> Urls]
    /\ pattern = EmptyMap
    /\ logged = EmptyMap
    /\ calls = <<>>
    /\ listing = Null

\* generateUrlPattern(url) is called and returns
GenerateUrlPattern(i) ==
    /\ i \notin DOMAIN pattern
    /\ LET call == generateUrlPatternCall(UrlText(url[i]))
       IN  /\ pattern' = MapSet(pattern, i, call.returned)
           /\ logged' = MapSet(logged, i, call.logged)
    /\ UNCHANGED <<serviceVars, storageVars, url>>

PatternNext == \E i \in Slots : GenerateUrlPattern(i)

PatternSpec == PatternInit /\ [][PatternNext]_vars

(***************************************************************************)
(* DiskParserStorage on its own: get, set, delete and getAll are called on *)
(* a storage directory that may hold records written earlier and files     *)
(* that cannot be parsed.  get, set and delete act on the directory in one *)
(* step; getAll reads the directory, then one file per step, and other     *)
(* calls may run in between.                                               *)
(***************************************************************************)
MaxCalls == 3

\* the keys the storage is called with: "a.b", "a_b" and "a/b"
StorageKeys == { <<"a", ".", "b">>, <<"a", "_", "b">>, <<"a", "/", "b">> }

\* a key stored before the calls start and never written again
OldKey == <<"x">>

\* getAll(limit: number = 10)
DefaultLimit == 10

\* the limits getAll is called with
Limits == { 2, DefaultLimit }

\* the record a file holds when it was written before the calls start
InitialRecord(k) == StoredParser(k, "p0", 0)

\* the file that may have been damaged before the calls start
DamagedFile == getParserFilePath(<<"a", "_", "b">>)

\* what a file of the directory may hold at the start: the record of the key
\* of the same name or, for one of the files, something JSON.parse rejects
InitialContents(file) ==
    (IF file = DamagedFile THEN {Corrupt} ELSE {})
        \cup { InitialRecord(k) : k \in { q \in {<<"a", ".", "b">>, <<"a", "_", "b">>, OldKey} :
                                            getParserFilePath(q) = file } }

\* the file names of the directory
DirectoryFiles == { getParserFilePath(k) : k \in StorageKeys \cup {OldKey} }

\* the directories the calls may start from
InitialDirectories ==
    { d \in UNION { [F -> UNION { InitialContents(f) : f \in F }] : F \in SUBSET DirectoryFiles } :
        \A f \in DOMAIN d : d[f] \in InitialContents(f) }

\* fsPromises.readdir: the names of the directory in any order
Orders(names) ==
    { order \in [1..Cardinality(names) -> names] :
        \A i \in DOMAIN order : \A j \in DOMAIN order : order[i] = order[j] => i = j }

\* if (limit) { files = files.slice(0, limit); }, for a limit other than 0
Slice(files, limit) ==
    IF limit < Len(files) THEN SubSeq(files, 1, limit) ELSE files

\* file.endsWith('.json') && file !== 'index.json'
IsParserFile(file) ==
    file[Len(file)] = ".json" /\ file # <<"i", "n", "d", "e", "x", ".json">>

\* a finished call: the method, its arguments, how it returned and, for
\* getAll, the call as it went
CallRecord(name, key, parser, returned, went) ==
    [name |-> name, urlPattern |-> key, parser |-> parser,
     returned |-> returned, went |-> went]

\* a getAll in progress: the sliced directory listing, the files still to be
\* read, the parsers pushed so far, the directory when it was listed and
\* whether a file has been written or removed since
Listing(limit, listed, files, parsers, snapshot, disturbed) ==
    [limit |-> limit, listed |-> listed, files |-> files, parsers |-> parsers,
     snapshot |-> snapshot, disturbed |-> disturbed]

\* a file is written or removed while a getAll is in progress
Disturbed ==
    IF listing = Null THEN Null ELSE [listing EXCEPT !.disturbed = TRUE]

\* calls started so far
Started == Len(calls) + (IF listing = Null THEN 0 ELSE 1)

StorageInit ==
    /\ pc = [r \in Reqs |-> "idle"]
    /\ urlPattern = EmptyMap
    /\ noCache = EmptyMap
    /\ existingParser = EmptyMap
    /\ awaited = EmptyMap
    /\ result = EmptyMap
    /\ ongoingRequests = EmptyMap
    /\ promise = EmptyMap
    /\ store \in InitialDirectories
    /\ genCalls = [k \in Patterns |-> 0]
    /\ now = 1
    /\ atIssue = EmptyMap
    /\ intact = {}
    /\ sinceDone = {}
    /\ url = EmptyMap
    /\ pattern = EmptyMap
    /\ logged = EmptyMap
    /\ calls = <<>>
    /\ listing = Null

\* the variables of the service and of the pattern calls other than the directory
\* and the clock
idleVars == <<pc, urlPattern, noCache, existingParser, awaited, result, ongoingRequests,
              promise, genCalls, atIssue, intact, sinceDone, patternVars>>

\* storage.get(urlPattern)
DiskGet(k) ==
    /\ Started < MaxCalls
    /\ calls' = Append(calls, CallRecord("get", k, "", Fulfilled(StorageGet(k)), Null))
    /\ UNCHANGED <<idleVars, store, now, listing>>

\* storage.set(urlPattern, parser): the file is written
DiskSet(k, parser) ==
    /\ Started < MaxCalls
    /\ LET parserData == StoredParser(k, parser, now)
       IN  /\ store' = MapSet(store, getParserFilePath(k), parserData)
           /\ calls' = Append(calls, CallRecord("set", k, parser, Fulfilled(parserData), Null))
    /\ now' = now + 1
    /\ listing' = Disturbed
    /\ UNCHANGED idleVars

\* storage.set(urlPattern, parser): fs.writeFile fails and set throws
DiskSetFails(k, parser, fsMessage) ==
    /\ Started < MaxCalls
    /\ calls' = Append(calls,
                       CallRecord("set", k, parser, Rejected(SaveError(fsMessage)), Null))
    /\ UNCHANGED <<idleVars, store, now, listing>>

\* storage.delete(urlPattern): true when access and unlink succeed, false
\* when access fails
DeleteReturns(k) == getParserFilePath(k) \in DOMAIN store

\* storage.delete(urlPattern)
DiskDelete(k) ==
    /\ Started < MaxCalls
    /\ calls' = Append(calls, CallRecord("delete", k, "", Fulfilled(DeleteReturns(k)), Null))
    /\ store' = MapDelete(store, getParserFilePath(k))
    /\ listing' = IF getParserFilePath(k) \in DOMAIN store THEN Disturbed ELSE listing
    /\ UNCHANGED <<idleVars, now>>

\* storage.getAll(limit) up to the first readFile: the directory is listed
\* and the listing is cut to the limit
DiskGetAllReaddir(limit, files) ==
    /\ Started < MaxCalls
    /\ listing = Null
    /\ listing' = Listing(limit, Slice(files, limit), Slice(files, limit), <<>>, store, FALSE)
    /\ UNCHANGED <<idleVars, store, now, calls>>

\* variant: a file that cannot be parsed makes getAll return what the outer
\* catch block returns
ReadFileAborting(parsers, file) ==
    IF ~IsParserFile(file) THEN Fulfilled(parsers)
    ELSE IF file \notin DOMAIN store \/ store[file] = Corrupt THEN Rejected(<<>>)
    ELSE Fulfilled(Append(parsers, store[file]))

\* the body of the loop of getAll for one file: the parser is pushed, or the
\* error of readFile or JSON.parse is caught and logged
ReadFile(parsers, file) ==
    IF ~IsParserFile(file) THEN Fulfilled(parsers)
    ELSE IF file \notin DOMAIN store \/ store[file] = Corrupt THEN Fulfilled(parsers)
    ELSE Fulfilled(Append(parsers, store[file]))

\* getAll reads the next file of its listing
DiskGetAllReadFile ==
    /\ listing # Null
    /\ listing.files # <<>>
    /\ LET read == ReadFile(listing.parsers, Head(listing.files))
       IN  listing' = IF read.ok
                      THEN [listing EXCEPT !.files = Tail(@), !.parsers = read.value]
                      ELSE [listing EXCEPT !.files = <<>>, !.parsers = read.error]
    /\ UNCHANGED <<idleVars, store, now, calls>>

\* getAll returns the parsers it has pushed
DiskGetAllReturns ==
    /\ listing # Null
    /\ listing.files = <<>>
    /\ calls' = Append(calls, CallRecord("getAll", <<>>, "", Fulfilled(listing.parsers), listing))
    /\ listing' = Null
    /\ UNCHANGED <<idleVars, store, now>>

StorageNext ==
    \/ \E k \in StorageKeys : DiskGet(k)
    \/ \E k \in StorageKeys, c \in Codes : DiskSet(k, c)
    \/ \E k \in StorageKeys, c \in Codes, m \in FsErrors : DiskSetFails(k, c, m)
    \/ \E k \in StorageKeys : DiskDelete(k)
    \/ \E limit \in Limits, files \in Orders(DOMAIN store) : DiskGetAllReaddir(limit, files)
    \/ DiskGetAllReadFile
    \/ DiskGetAllReturns

StorageSpec == StorageInit /\ [][StorageNext]_vars

(***************************************************************************)
(* Scheduling: the event loop runs every continuation that is ready, and   *)
(* every I/O operation that was started (store read, generator call, store *)
(* write) eventually completes, with success or with an error.             *)
(***************************************************************************)
\* the generator call of generation g returns or throws
GeneratorCompletes(g) ==
    \/ \E c \in Codes : GeneratorSucceeds(g, c)
    \/ \E m \in GenErrors : GeneratorFails(g, m)

\* the write of storage.set for generation g makes progress
StorageSetProgresses(g) ==
    \/ StorageSetWrites(g)
    \/ StorageSetCompletes(g)
    \/ \E m \in FsErrors : StorageSetFails(g, m)

\* getParser resumes after `await this.storage.get`
GetParserResumes(r) == ReturnCached(r) \/ CallGenerateParser(r)

Fairness ==
    \A r \in Reqs :
        /\ WF_vars(StorageGetCompletes(r))
        /\ WF_vars(GetParserResumes(r))
        /\ WF_vars(GeneratorCompletes(r))
        /\ WF_vars(StorageSetProgresses(r))

LiveSpec == Init /\ [][Next]_vars /\ Fairness

TypeOK ==
    /\ pc \in [Reqs -> {"idle", "storageGet", "gotParser", "awaitOwn", "awaitExisting", "done"}]
    /\ DOMAIN ongoingRequests \subseteq Patterns
    /\ DOMAIN store \subseteq Files
    /\ DOMAIN promise \subseteq Reqs
    /\ Done = DOMAIN result

(***************************************************************************)
(* Claims about the coalescing coordinator.                                *)
(***************************************************************************)
\* the step in which call r runs the lookup of the in-flight table
ChecksInFlight(r) ==
    /\ pc[r] \in {"idle", "gotParser"}
    /\ pc'[r] \in {"awaitOwn", "awaitExisting"}

\* C1: for every pattern at most one generator invocation is in flight at any
\* moment, and it is the one registered in the in-flight table; a call that
\* finds a registration for its pattern awaits it and does not invoke the
\* generator; a call that invokes the generator found no registration and has
\* registered its own promise in the same step (no suspension in between).
C1_SingleFlight ==
    /\ [](\A k \in Patterns :
            /\ Cardinality(GeneratorsInFlight(k)) <= 1
            /\ \A g \in GeneratorsInFlight(k) :
                  k \in DOMAIN ongoingRequests /\ ongoingRequests[k] = g)
    /\ [][\A r \in Reqs :
            (ChecksInFlight(r) /\ urlPattern'[r] \in DOMAIN ongoingRequests)
                => /\ awaited'[r] = ongoingRequests[urlPattern'[r]]
                   /\ genCalls' = genCalls
                   /\ promise' = promise]_vars
    /\ [][\A r \in Reqs :
            (r \notin DOMAIN promise /\ r \in DOMAIN promise')
                => /\ ChecksInFlight(r)
                   /\ urlPattern'[r] \notin DOMAIN ongoingRequests
                   /\ ongoingRequests'[urlPattern'[r]] = r]_vars

\* C1 witness: a call that missed the store has joined a generation whose
\* generator call is still in flight.
C1_Witness ==
    \E r \in DOMAIN awaited :
        /\ awaited[r] # r
        /\ ~noCache[r]
        /\ existingParser[r] = Null
        /\ promise[awaited[r]].state = "generating"

\* the calls issued for pattern k
CallsFor(k) == { r \in DOMAIN urlPattern : urlPattern[r] = k }

\* C2: when N >= 2 getParser calls for the same pattern are issued
\* concurrently (each before any call has returned) on an empty store, none
\* with no_cache, and all of them succeed with no delete interfering, the
\* generator has been invoked exactly once for the pattern and all callers
\* received the same parser.
C2_OneInvocationForConcurrentCalls ==
    \A k \in Patterns :
        ( /\ Cardinality(CallsFor(k)) >= 2
          /\ CallsFor(k) \subseteq Done \cap intact
          /\ \A r \in CallsFor(k) :
                /\ ~noCache[r]
                /\ atIssue[r].done = {}
                /\ ~atIssue[r].stored
                /\ result[r].ok )
        => /\ genCalls[k] = 1
           /\ \A r1, r2 \in CallsFor(k) :
                 result[r1].value.parser = result[r2].value.parser

\* B was issued after A had returned successfully, for the same pattern
IssuedAfterSuccessOf(B, A) ==
    /\ B \in DOMAIN atIssue
    /\ A \in atIssue[B].done
    /\ result[A].ok
    /\ urlPattern[A] = urlPattern[B]

\* a finished call returned a stored entry and did not invoke the generator
ReturnedCached(B) ==
    /\ result[B].ok
    /\ result[B].value.cached
    /\ result[B].value = CachedResponse(existingParser[B], urlPattern[B])
    /\ B \notin DOMAIN promise
    /\ B \notin DOMAIN awaited

\* C3 as stated: after a call for pattern k has completed successfully, with
\* no delete of k after that completion, every later call (without no_cache)
\* for k returns the stored entry with cached = true and does not invoke the
\* generator.
C3_Original ==
    \A A, B \in Done :
        (IssuedAfterSuccessOf(B, A) /\ A \in sinceDone /\ ~noCache[B])
            => ReturnedCached(B)

\* C3 amended: after a call for pattern k has completed successfully, with no
\* delete of k since the entry that call returned was read from or written to
\* the store, every later call (without no_cache) for k finds the entry,
\* returns it with cached = true and does not invoke the generator.
C3_CacheHitSkipsGeneration ==
    \A A, B \in Reqs :
        (IssuedAfterSuccessOf(B, A) /\ A \in intact /\ ~noCache[B])
            => /\ pc[B] = "gotParser" => existingParser[B] # Null
               /\ pc[B] \in {"storageGet", "gotParser", "done"}
               /\ pc[B] = "done" => ReturnedCached(B)

\* C3 witness: a later call has returned the stored entry.
C3_Witness ==
    \E A, B \in Done :
        /\ IssuedAfterSuccessOf(B, A)
        /\ A \in intact
        /\ ~noCache[B]
        /\ result[B].ok
        /\ result[B].value.cached

\* generations whose promise was rejected
FailedGenerations ==
    { g \in DOMAIN promise : promise[g].state = "settled" /\ ~promise[g].outcome.ok }

\* C4: a failed generation is no longer registered once it has failed; a call
\* issued after the failed batch has returned never joins it: it is served by
\* the store, joins a generation that had not finished when it was issued, or
\* invokes the generator itself, and it does invoke the generator whenever it
\* finds no registration at the in-flight lookup; the generator is invoked
\* once per generation, never again for a failed one.
C4_FailureClearsInFlight ==
    /\ [](\A k \in DOMAIN ongoingRequests :
            promise[ongoingRequests[k]].state # "settled")
    /\ [](\A g \in FailedGenerations : \A r \in DOMAIN awaited :
            (g \in atIssue[r].done) => awaited[r] \notin atIssue[r].done)
    /\ [](\A k \in Patterns :
            genCalls[k] = Cardinality({ g \in DOMAIN promise : urlPattern[g] = k }))
    /\ [][\A r \in Reqs :
            (ChecksInFlight(r) /\ urlPattern'[r] \notin DOMAIN ongoingRequests)
                => /\ genCalls'[urlPattern'[r]] = genCalls[urlPattern'[r]] + 1
                   /\ r \in DOMAIN promise' /\ promise'[r].state = "generating"]_vars
    /\ [][\A g \in DOMAIN promise :
            (promise[g].state # "settled" /\ promise'[g].state = "settled")
                => genCalls' = genCalls]_vars

\* C4 witness: a call issued after a failed batch of its pattern had returned
\* has invoked the generator again.
C4_Witness ==
    \E g \in FailedGenerations : \E r \in DOMAIN promise :
        /\ g \in atIssue[r].done
        /\ urlPattern[r] = urlPattern[g]
        /\ genCalls[urlPattern[g]] >= 2

\* C5: every call coalesced on a generation (its owner and all calls that
\* joined it) ends with the outcome of that generation's promise: the same
\* response or the same error for all of them, and they all end when the
\* promise settles.
C5_SameOutcomeForBatch ==
    \A g \in DOMAIN promise :
        /\ promise[g].state = "settled"
              => \A r \in Batch(g) : pc[r] = "done" /\ result[r] = promise[g].outcome
        /\ promise[g].state # "settled"
              => \A r \in Batch(g) : pc[r] \in {"awaitOwn", "awaitExisting"}
        /\ \A r1, r2 \in Batch(g) \cap Done : result[r1] = result[r2]

\* C5 witness: a batch of at least two calls has failed together.
C5_Witness ==
    \E g \in FailedGenerations :
        /\ Cardinality(Batch(g)) >= 2
        /\ Batch(g) \subseteq Done

\* the step in which generation g writes its entry: its generator has returned
\* parserCode and storage.set stores it under the pattern's file name
WritesEntry(g, f) ==
    /\ promise[g].state = "storing"
    /\ promise'[g].state = "written"
    /\ getParserFilePath(urlPattern[g]) = f
    /\ store'[f] = StoredParser(urlPattern[g], promise[g].parserCode, now)

\* C6: a store entry is created or changed only by the write of a generation
\* of that pattern whose generator call has returned successfully; the start
\* of a generation, the return of the generator and the failure of a
\* generation leave the whole store unchanged, and while the generator call
\* for a pattern is in flight the entry of that pattern is neither created
\* nor changed.
C6_StoreWrittenOnlyAfterSuccess ==
    /\ [][\A f \in DOMAIN store' :
            (f \notin DOMAIN store \/ store'[f] # store[f])
                => \E g \in DOMAIN promise : WritesEntry(g, f)]_vars
    /\ [][(\E g \in DOMAIN promise' :
              \/ g \notin DOMAIN promise
              \/ promise[g].state = "generating" /\ promise'[g].state # "generating"
              \/ promise[g].state # "settled" /\ promise'[g].state = "settled"
                  /\ ~promise'[g].outcome.ok)
            => store' = store]_vars
    /\ [][\A k \in Patterns :
            (GeneratorsInFlight(k) # {} /\ getParserFilePath(k) \in DOMAIN store')
                => /\ getParserFilePath(k) \in DOMAIN store
                   /\ store'[getParserFilePath(k)] = store[getParserFilePath(k)]]_vars

\* C6 witness: a generation has failed and its pattern has no entry.
C6_Witness ==
    \E g \in FailedGenerations :
        /\ promise[g].raised.raisedBy = "parserGenerator"
        /\ getParserFilePath(urlPattern[g]) \notin DOMAIN store

\* generations whose generator call raised an error
GeneratorFailures ==
    { g \in FailedGenerations : promise[g].raised.raisedBy = "parserGenerator" }

\* generations whose generator call succeeded and whose store write failed
StorageFailures ==
    { g \in DOMAIN promise : /\ promise[g].state = "settled"
                             /\ promise[g].raised # Null
                             /\ promise[g].raised.raisedBy = "DiskParserStorage.set" }

\* C7 as stated: every call coalesced on a generation whose generator raised
\* the error e receives e itself.
C7_Original ==
    \A g \in GeneratorFailures : \A r \in Batch(g) :
        result[r].error = promise[g].raised

\* C7 amended: every call coalesced on a generation whose generator raised the
\* error e receives one and the same new Error, constructed by
\* performParserGeneration, whose message is "Failed to generate parser: "
\* followed by the message of e.
C7_WrappedErrorForBatch ==
    \A g \in GeneratorFailures : \A r \in Batch(g) :
        /\ ~result[r].ok
        /\ result[r].error.raisedBy = "performParserGeneration"
        /\ result[r].error.message =
               <<"Failed to generate parser: ">> \o promise[g].raised.message
        /\ result[r].error # promise[g].raised
        /\ \A q \in Batch(g) : result[q].error = result[r].error

\* C7 witness: two coalesced calls have received the error of a failed generator.
C7_Witness ==
    \E g \in GeneratorFailures : \E r \in Batch(g) :
        r # g /\ ~result[r].ok /\ ~result[g].ok

\* C8 as stated: when the generator succeeds and the store write fails, every
\* call of the batch succeeds with the generated parser, and the pattern is
\* left without a stored entry by that write.
C8_Original ==
    \A g \in StorageFailures : \A r \in Batch(g) :
        /\ result[r].ok
        /\ result[r].value.parser = promise[g].parserCode

\* C8 amended: when the generator succeeds and the store write fails, every
\* call of the batch fails with the Error "Failed to generate parser: Cannot
\* save parser: <fs message>"; the failed write leaves the store unchanged
\* and the registration is removed in the same step, so a next call that
\* finds no stored entry invokes the generator again.
C8_StoreFailureFailsRequest ==
    /\ [](\A g \in StorageFailures : \A r \in Batch(g) :
            /\ pc[r] = "done"
            /\ ~result[r].ok
            /\ result[r].error.raisedBy = "performParserGeneration"
            /\ SubSeq(result[r].error.message, 1, 2) =
                   <<"Failed to generate parser: ", "Cannot save parser: ">>
            /\ SubSeq(result[r].error.message, 3, Len(result[r].error.message))
                   \in FsErrors)
    /\ [][\A g \in DOMAIN promise :
            (promise[g].state = "storing" /\ promise'[g].state = "settled")
                => /\ store' = store
                   /\ urlPattern[g] \notin DOMAIN ongoingRequests'
                   /\ genCalls' = genCalls]_vars
    /\ [][\A r \in Reqs :
            ( /\ ChecksInFlight(r)
              /\ \E g \in StorageFailures : g \in atIssue'[r].done
                                            /\ urlPattern[g] = urlPattern'[r]
              /\ urlPattern'[r] \notin DOMAIN ongoingRequests )
                => r \in DOMAIN promise' /\ promise'[r].state = "generating"]_vars

\* C8 witness: after a failed store write the pattern has no entry and a call
\* issued afterwards has invoked the generator again.
C8_Witness ==
    \E g \in StorageFailures : \E r \in DOMAIN promise :
        /\ ~result[g].ok
        /\ g \in atIssue[r].done
        /\ urlPattern[r] = urlPattern[g]
        /\ ~atIssue[r].stored

RejectedForInput ==
    { r \in Done : result[r] \in {Rejected(InputError), Rejected(MissingFieldsError)} }

\* C13: a request whose url or html is missing is rejected in its first step,
\* before the pattern is derived: it reads nothing from the store, registers
\* nothing, never invokes the generator and leaves the store and the
\* in-flight table unchanged; through POST /parse it is answered with status
\* 400, while a failed generation is answered with status 500.
C13_InvalidInputRejected ==
    /\ [](\A r \in RejectedForInput :
            /\ r \notin DOMAIN urlPattern
            /\ r \notin DOMAIN existingParser
            /\ r \notin DOMAIN awaited
            /\ r \notin DOMAIN promise
            /\ \A k \in DOMAIN ongoingRequests : ongoingRequests[k] # r)
    /\ [][\A r \in Reqs :
            (r \notin DOMAIN result /\ r \in DOMAIN result'
               /\ result'[r] \in {Rejected(InputError), Rejected(MissingFieldsError)})
                => /\ pc[r] = "idle"
                   /\ store' = store
                   /\ ongoingRequests' = ongoingRequests
                   /\ promise' = promise
                   /\ genCalls' = genCalls
                   /\ urlPattern' = urlPattern
                   /\ existingParser' = existingParser]_vars
    /\ [](\A r \in Done :
            /\ result[r] = Rejected(MissingFieldsError) => HttpStatus(result[r]) = 400
            /\ r \in DOMAIN awaited /\ ~result[r].ok => HttpStatus(result[r]) = 500
            /\ HttpStatus(result[r]) = 400 => r \in RejectedForInput)

\* C13 witness: one request has been rejected by the route for a missing
\* field and another one has failed in generation.
C13_Witness ==
    /\ \E r \in Done : result[r] = Rejected(MissingFieldsError)
    /\ \E r \in Done : r \in DOMAIN awaited /\ ~result[r].ok

(***************************************************************************)
(* Claims about the lifetime of an in-flight registration.                 *)
(***************************************************************************)
\* generations whose promise has not settled
Unsettled == { g \in DOMAIN promise : promise[g].state # "settled" }

\* C12: a registration for pattern k exists exactly while a generation of k
\* has started and not finished; it is removed in the step in which the
\* generation settles, on success and on failure alike; and when every store
\* read, generator call and store write eventually completes, every
\* registration is eventually removed and every pending getParser call
\* eventually returns or throws.
C12_RegistrationEventuallyRemoved ==
    /\ [](\A k \in DOMAIN ongoingRequests :
            /\ ongoingRequests[k] \in Unsettled
            /\ urlPattern[ongoingRequests[k]] = k)
    /\ [](\A g \in Unsettled :
            /\ urlPattern[g] \in DOMAIN ongoingRequests
            /\ ongoingRequests[urlPattern[g]] = g)
    /\ [][\A g \in Unsettled :
            promise'[g].state = "settled"
                => urlPattern[g] \notin DOMAIN ongoingRequests']_vars
    /\ \A k \in Patterns :
          (k \in DOMAIN ongoingRequests) ~> (k \notin DOMAIN ongoingRequests)
    /\ \A r \in Reqs :
          (pc[r] \notin {"idle", "done"}) ~> (pc[r] = "done")

\* C12 witness: one generation has succeeded, another one has failed, every
\* call has returned or thrown and no registration is left.
C12_Witness ==
    /\ \E g \in DOMAIN promise : promise[g].state = "settled" /\ promise[g].outcome.ok
    /\ \E g \in DOMAIN promise : promise[g].state = "settled" /\ ~promise[g].outcome.ok
    /\ \A r \in Reqs : pc[r] = "done"
    /\ ongoingRequests = EmptyMap

(***************************************************************************)
(* Claims about calls for different patterns.                              *)
(***************************************************************************)
\* call r, or the generation it owns, takes a step
StepOfCall(r) ==
    \/ pc'[r] # pc[r]
    \/ r \in DOMAIN promise' /\ (r \notin DOMAIN promise \/ promise'[r] # promise[r])

\* the in-flight registration of pattern k is left as it is
RegistrationUnchanged(k) ==
    /\ (k \in DOMAIN ongoingRequests') = (k \in DOMAIN ongoingRequests)
    /\ k \in DOMAIN ongoingRequests => ongoingRequests'[k] = ongoingRequests[k]

\* C11: calls for different patterns are independent: a call never awaits a
\* generation of another pattern; a call that finds no registration for its
\* own pattern starts its own generator invocation whatever is in flight for
\* other patterns; a call never receives the stored entry of another pattern
\* from the store read, and no step of a call for pattern k2 changes the
\* in-flight registration or the stored entry of a pattern k1 other than k2.
C11_DifferentKeysIndependent ==
    /\ [](\A r \in DOMAIN awaited : urlPattern[awaited[r]] = urlPattern[r])
    /\ [](\A r \in DOMAIN existingParser :
            existingParser[r] # Null => existingParser[r].urlPattern = urlPattern[r])
    /\ [][\A r \in Reqs :
            (ChecksInFlight(r) /\ urlPattern'[r] \notin DOMAIN ongoingRequests)
                => r \in DOMAIN promise' /\ promise'[r].state = "generating"]_vars
    /\ [][\A r \in DOMAIN urlPattern' : \A k1 \in DOMAIN genCalls :
            (StepOfCall(r) /\ k1 # urlPattern'[r])
                => /\ RegistrationUnchanged(k1)
                   /\ StorageGet(k1)' = StorageGet(k1)]_vars

(***************************************************************************)
(* Claims about generateUrlPattern, over the calls that are compared.      *)
(***************************************************************************)
\* the compared calls that have returned
Called == DOMAIN pattern

\* the string call i was given
Given(i) == UrlText(url[i])

\* the calls in which new URL or the segment callback threw
Failed == { i \in Called : logged[i] # Null }

\* C14: generateUrlPattern is total: every call returns a string and none
\* throws; a call in which URL parsing or the classification of a segment
\* threw returns the string it was given, unchanged.
C14_TotalWithFallback ==
    \A i \in Called :
        /\ pattern[i].ok
        /\ pattern[i].value \in Seq(PrintableAsciiSet)
        /\ ParseUrl(normalizeUrl(Given(i))) = Null => i \in Failed
        /\ i \in Failed => pattern[i].value = Given(i)

\* C14 witness: one call was given a string new URL rejects, the other a URL
\* with a segment decodeURIComponent rejects; both returned what they were given.
C14_Witness ==
    /\ Called = Slots
    /\ logged["first"] = InvalidUrlError
    /\ logged["second"] = UriError
    /\ \A i \in Slots : pattern[i] = Fulfilled(Given(i))

\* the calls whose argument new URL accepted
Parsed == { i \in Called : ParseUrl(normalizeUrl(Given(i))) # Null }

\* the URLs of calls i and j are written with the same scheme, host and path
SameButQueryFragmentPort(i, j) ==
    /\ url[i].scheme = url[j].scheme
    /\ url[i].host = url[j].host
    /\ url[i].path = url[j].path

\* the characters that start a query string, a fragment or a port
QueryFragmentPortMarks == {"?", "#", ":"}

\* C15: the pattern of a URL holds no query string, no fragment and no port,
\* and two URLs that differ only in query string, fragment or port derive the
\* same pattern (stated for the URLs new URL accepts).
C15_NoQueryFragmentPort ==
    /\ \A i \in Parsed :
          \A n \in DOMAIN pattern[i].value :
              pattern[i].value[n] \notin QueryFragmentPortMarks
    /\ \A i \in Parsed : \A j \in Parsed :
          SameButQueryFragmentPort(i, j) => pattern[i] = pattern[j]

\* the non-empty path segments of the URL of call i, as generateUrlPattern sees them
SegmentsOf(i) ==
    FilterNonEmpty(Split(ParseUrl(normalizeUrl(Given(i))).pathname, {"/"}))

\* what follows the hostname in the value call i returned, split at the slashes
TokensOf(i) == Tail(Split(pattern[i].value, {"/"}))

\* the segment matches none of the three rules that precede the heuristic
ReachesHeuristic(segment) ==
    ~IsDecimal(segment) /\ ~IsHexAndHyphens(segment) /\ Len(segment) < 20

\* the token is the one the ordered rules give the segment
FollowsRules(segment, token) ==
    IF IsDecimal(segment) THEN token = IdToken
    ELSE IF IsHexAndHyphens(segment) THEN token = UuidToken
    ELSE IF Len(segment) >= 20 THEN token = IdToken
    ELSE token \in {IdToken, segment}

\* C16: the segment rules are applied in order and the first match wins: a
\* segment of decimal digits only becomes {id}; otherwise a segment of at
\* least 8 lowercase hex digits and hyphens becomes {uuid}; otherwise a segment
\* of length >= 20 becomes {id}; only a segment matching none of these reaches
\* the word-likelihood heuristic, so only such a segment can make the call fail.
C16_SegmentRulesInOrder ==
    /\ \A i \in Called \ Failed :
          /\ Len(TokensOf(i)) = Len(SegmentsOf(i))
          /\ \A n \in DOMAIN SegmentsOf(i) : FollowsRules(SegmentsOf(i)[n], TokensOf(i)[n])
    /\ \A i \in Failed \cap Parsed :
          \E n \in DOMAIN SegmentsOf(i) : ReachesHeuristic(SegmentsOf(i)[n])

\* C16 witness: a 32-character hex segment has become {uuid} and an all-digit
\* segment of 8 characters has become {id}.
C16_Witness ==
    /\ Called = Slots
    /\ \A i \in Slots : i \in Parsed /\ Len(SegmentsOf(i)) = 2
    /\ Len(SegmentsOf("first")[2]) = 32 /\ TokensOf("first") = <<SegmentsOf("first")[1], UuidToken>>
    /\ Len(SegmentsOf("second")[2]) = 8 /\ IsDecimal(SegmentsOf("second")[2])
    /\ TokensOf("second") = <<SegmentsOf("second")[1], IdToken>>

\* the URL of the test 'should replace UUID-like segments with {uuid}'
UuidUrl ==
    UrlOf(HttpsPrefix, ExampleHost, <<>>, <<"/", "u", "s", "e", "r", "s", "/">> \o UuidSegment,
          <<>>, <<>>)

\* the URL of the test 'should replace long segments with {id}'
LongIdUrl ==
    UrlOf(HttpsPrefix, ExampleHost, <<>>,
          << "/", "u", "s", "e", "r", "s", "/", "t", "h", "i", "s", "i",
             "s", "v", "e", "r", "y", "l", "o", "n", "g", "s", "e", "g",
             "m", "e", "n", "t" >>,
          <<>>, <<>>)

\* "example.com/users/{id}"
UsersIdPattern ==
    << "e", "x", "a", "m", "p", "l", "e", ".", "c", "o", "m", "/",
       "u", "s", "e", "r", "s", "/", "{", "i", "d", "}" >>

\* "example.com/users/{uuid}"
UsersUuidPattern ==
    << "e", "x", "a", "m", "p", "l", "e", ".", "c", "o", "m", "/",
       "u", "s", "e", "r", "s", "/", "{", "u", "u", "i", "d", "}" >>

\* C17 as stated: the URL with a UUID segment derives "example.com/users/{id}",
\* the pattern of a URL with a long-id segment.
C17_Original ==
    \A i \in Called : url[i] = UuidUrl => pattern[i] = Fulfilled(UsersIdPattern)

\* C17: a UUID path segment and a long-id path segment get different
\* placeholder tokens: the URL with the UUID segment derives
\* "example.com/users/{uuid}", the URL with the long-id segment derives
\* "example.com/users/{id}".
C17_UuidSegmentBecomesUuid ==
    \A i \in Called :
        /\ url[i] = UuidUrl => pattern[i] = Fulfilled(UsersUuidPattern)
        /\ url[i] = LongIdUrl => pattern[i] = Fulfilled(UsersIdPattern)

\* C17 witness: generateUrlPattern has returned for the URL with the UUID
\* segment and for the URL with the long-id segment.
C17_Witness ==
    /\ Called = Slots
    /\ url["first"] = UuidUrl /\ pattern["first"].value = UsersUuidPattern
    /\ url["second"] = LongIdUrl /\ pattern["second"].value = UsersIdPattern

\* the non-empty segments of the path of call i's URL, as it is written
WrittenSegments(i) == FilterNonEmpty(Split(url[i].path, {"/"}))

\* path segments new URL removes or resolves
DotSegments == { <<".">>, <<".", ".">> }

\* the URLs of calls i and j differ in empty path segments only
SameButSlashes(i, j) ==
    /\ url[i].scheme = url[j].scheme
    /\ url[i].host = url[j].host
    /\ url[i].port = url[j].port
    /\ url[i].query = url[j].query
    /\ url[i].fragment = url[j].fragment
    /\ WrittenSegments(i) = WrittenSegments(j)
    /\ \A n \in DOMAIN WrittenSegments(i) : WrittenSegments(i)[n] \notin DotSegments

\* the value call i returned is the hostname alone when the path has no
\* segment, else the hostname and one token per segment, each after a slash
HostThenTokens(i) ==
    LET parts == Split(pattern[i].value, {"/"})
    IN  /\ parts[1] = ParseUrl(normalizeUrl(Given(i))).hostname
        /\ Len(parts) = 1 + Len(SegmentsOf(i))
        /\ \A n \in DOMAIN SegmentsOf(i) :
              parts[n + 1] # <<>> /\ FollowsRules(SegmentsOf(i)[n], parts[n + 1])

\* C18: empty path segments are discarded, so repeated, leading and trailing
\* slashes do not change the pattern; the pattern is the hostname alone when
\* the path has no non-empty segment, else the hostname, a slash and the
\* classified segments joined by slashes in their order (stated for the URLs
\* new URL accepts, and for paths without dot segments).
C18_EmptySegmentsDiscarded ==
    /\ \A i \in Parsed : \A j \in Parsed :
          SameButSlashes(i, j) => pattern[i] = pattern[j]
    /\ \A i \in Parsed : HostThenTokens(i)

\* the classification of a segment: id, uuid or literal; none when the
\* classifier throws
ClassOf(segment) ==
    LET token == ClassifySegment(segment)
    IN  IF ~token.ok THEN "none"
        ELSE IF token.value = IdToken THEN "id"
        ELSE IF token.value = UuidToken THEN "uuid"
        ELSE "literal"

\* the URLs of calls i and j have the same host, the same number of path
\* segments and the same classification at every segment position
SameStructure(i, j) ==
    /\ i \in Parsed /\ j \in Parsed
    /\ ParseUrl(normalizeUrl(Given(i))).hostname = ParseUrl(normalizeUrl(Given(j))).hostname
    /\ Len(SegmentsOf(i)) = Len(SegmentsOf(j))
    /\ \A n \in DOMAIN SegmentsOf(i) :
          /\ ClassOf(SegmentsOf(i)[n]) \in {"literal", "id", "uuid"}
          /\ ClassOf(SegmentsOf(i)[n]) = ClassOf(SegmentsOf(j)[n])

\* the URLs of calls i and j have the same text at every literal position
SameLiterals(i, j) ==
    \A n \in DOMAIN SegmentsOf(i) :
        ClassOf(SegmentsOf(i)[n]) = "literal" => SegmentsOf(i)[n] = SegmentsOf(j)[n]

\* C19 as stated: two URLs with the same host, the same number of path
\* segments and the same classification at every position derive the same
\* pattern.
C19_Original ==
    \A i \in Called : \A j \in Called :
        SameStructure(i, j) => pattern[i] = pattern[j]

\* C19: two URLs with the same hostname, the same number of path segments,
\* the same classification (literal, id or uuid) at every segment position
\* and the same text at every literal position derive the same pattern.
C19_SameStructureSamePattern ==
    \A i \in Called : \A j \in Called :
        (SameStructure(i, j) /\ SameLiterals(i, j)) => pattern[i] = pattern[j]

\* C19 witness: two calls were given URLs of the same structure whose id
\* segments differ, and returned the same pattern.
C19_Witness ==
    /\ Called = Slots
    /\ SameStructure("first", "second") /\ SameLiterals("first", "second")
    /\ \E n \in DOMAIN SegmentsOf("first") :
          /\ ClassOf(SegmentsOf("first")[n]) = "id"
          /\ SegmentsOf("first")[n] # SegmentsOf("second")[n]
    /\ pattern["first"] = pattern["second"]

\* the URLs of calls i and j are the same string x, with or without a scheme
\* in front
SameButScheme(i, j) ==
    /\ url[i].host = url[j].host
    /\ url[i].port = url[j].port
    /\ url[i].path = url[j].path
    /\ url[i].query = url[j].query
    /\ url[i].fragment = url[j].fragment

\* C20: the scheme does not affect the pattern: a string x, "http://" + x and
\* "https://" + x derive the same pattern, which starts with the hostname and
\* holds no scheme (stated for the strings new URL accepts).
C20_SchemeDoesNotAffectPattern ==
    /\ \A i \in Parsed : \A j \in Parsed :
          SameButScheme(i, j) => pattern[i] = pattern[j]
    /\ \A i \in Parsed :
          /\ StartsWith(pattern[i].value, ParseUrl(normalizeUrl(Given(i))).hostname)
          /\ ~StartsWith(pattern[i].value, HttpPrefix)
          /\ ~StartsWith(pattern[i].value, HttpsPrefix)

\* one uppercase letter followed only by lowercase letters, 8 to 19 characters
\* long, whose lowercase form is not in the stop-list
SingleCapitalizedWord(segment) ==
    /\ Len(segment) \in 8..19
    /\ segment[1] \in UpperLetters
    /\ \A n \in 2..Len(segment) : segment[n] \in LowerLetters
    /\ ToLowerCase(segment) \notin commonPathWords

\* "https://en.wikipedia.org/wiki/Prometheus"
PrometheusUrl ==
    UrlOf(HttpsPrefix,
          <<"e", "n", ".", "w", "i", "k", "i", "p", "e", "d", "i", "a", ".", "o", "r", "g">>,
          <<>>,
          <<"/", "w", "i", "k", "i", "/", "P", "r", "o", "m", "e", "t", "h", "e", "u", "s">>,
          <<>>, <<>>)

\* "en.wikipedia.org/wiki/{id}"
WikiIdPattern ==
    << "e", "n", ".", "w", "i", "k", "i", "p", "e", "d", "i", "a",
       ".", "o", "r", "g", "/", "w", "i", "k", "i", "/", "{", "i", "d", "}" >>

\* C21: a segment of 8 to 19 characters that is a single capitalized word
\* whose lowercase form is not in the stop-list becomes {id}, whether or not
\* the dictionary knows the word; "https://en.wikipedia.org/wiki/Prometheus"
\* derives "en.wikipedia.org/wiki/{id}".
C21_SingleCapitalizedWordIsId ==
    \A i \in Called :
        /\ url[i] = PrometheusUrl => pattern[i] = Fulfilled(WikiIdPattern)
        /\ i \in Parsed \ Failed =>
              \A n \in DOMAIN SegmentsOf(i) :
                  SingleCapitalizedWord(SegmentsOf(i)[n]) => TokensOf(i)[n] = IdToken

\* C21 witness: one call was given the Prometheus URL, the other a URL whose
\* last segment is a capitalized word the dictionary knows; both segments
\* became {id}.
C21_Witness ==
    /\ Called = Slots
    /\ url["first"] = PrometheusUrl /\ pattern["first"].value = WikiIdPattern
    /\ "second" \in Parsed \ Failed /\ Len(SegmentsOf("second")) = 2
    /\ SingleCapitalizedWord(SegmentsOf("second")[2])
    /\ ToLowerCase(SegmentsOf("second")[2]) \in EnglishWords
    /\ TokensOf("second")[2] = IdToken

(***************************************************************************)
(* Claims about DiskParserStorage.                                         *)
(***************************************************************************)
\* the finished calls of method name, by their position in the order of calls
CallsOf(name) == { n \in DOMAIN calls : calls[n].name = name }

\* the getAll calls during which no file was written or removed
QuietGetAll == { n \in CallsOf("getAll") : ~calls[n].went.disturbed }

\* the files of directory d that hold a record, and those that cannot be parsed
ValidFiles(d) == { f \in DOMAIN d : d[f] # Corrupt }

CorruptFiles(d) == { f \in DOMAIN d : d[f] = Corrupt }

RECURSIVE RecordsOf(_, _)
\* the records directory d holds in the files of the listing, in its order
RecordsOf(d, files) ==
    IF files = <<>> THEN <<>>
    ELSE (IF d[Head(files)] # Corrupt THEN <<d[Head(files)]>> ELSE <<>>)
             \o RecordsOf(d, Tail(files))

\* the elements of a sequence
Range(seq) == { seq[n] : n \in DOMAIN seq }

Stored(k) ==
    /\ getParserFilePath(k) \in DOMAIN store
    /\ store[getParserFilePath(k)] # Corrupt
    /\ store[getParserFilePath(k)].urlPattern = k

\* the directory holds no entry for key k: no file of its name, or a file
\* that holds the entry of another key
Missing(k) ==
    \/ getParserFilePath(k) \notin DOMAIN store
    \/ /\ store[getParserFilePath(k)] # Corrupt
       /\ store[getParserFilePath(k)].urlPattern # k

\* a call of method name finishes in this step
Finishes(name) ==
    /\ Len(calls') = Len(calls) + 1
    /\ calls'[Len(calls')].name = name

\* C23: delete(k) on a key with no stored entry returns false, raises no
\* error and leaves the store unchanged; delete(k) on a stored key returns
\* true, and afterwards get(k) is absent, so that the store read of the next
\* getParser for k misses.
C23_DeleteMissingAndStored ==
    [][\A k \in StorageKeys \cup {OldKey} :
          Finishes("delete") /\ calls'[Len(calls')].urlPattern = k =>
              /\ calls'[Len(calls')].returned.ok
              /\ Missing(k) =>
                    calls'[Len(calls')].returned.value = FALSE /\ store' = store
              /\ Stored(k) =>
                    calls'[Len(calls')].returned.value = TRUE /\ StorageGet(k)' = Null]_vars

\* the first three calls are set(k1, "p1") and set(k2, "p2"), both
\* successful, and then get(k1)
SetSetGet(k1, k2) ==
    /\ Len(calls) >= 3
    /\ calls[1].name = "set" /\ calls[1].urlPattern = k1 /\ calls[1].parser = "p1"
    /\ calls[1].returned.ok
    /\ calls[2].name = "set" /\ calls[2].urlPattern = k2 /\ calls[2].parser = "p2"
    /\ calls[2].returned.ok
    /\ calls[3].name = "get" /\ calls[3].urlPattern = k1

\* the get of SetSetGet returns the record the second set wrote
SecondOverwritesFirst == calls[3].returned.value = calls[2].returned.value

\* the get of SetSetGet returns the record the first set wrote
FirstIsKept == calls[3].returned.value = calls[1].returned.value

IsSet(j, k) ==
    calls[j].name = "set" /\ calls[j].urlPattern = k /\ calls[j].returned.ok

\* call j is the most recent successful set(k, .) before call i, and no
\* delete(k) was made between the two
MostRecentSet(j, i, k) ==
    /\ j < i
    /\ IsSet(j, k)
    /\ \A l \in (j + 1)..(i - 1) :
          ~IsSet(l, k) /\ ~(calls[l].name = "delete" /\ calls[l].urlPattern = k)

\* C25: the store is last-write-wins per key: a get(k) made after successful
\* set operations on k with no later delete of k returns the record of the
\* most recent set(k, .), and what getAll returns has at most one entry
\* whose key is k.
C25_LastWriteWinsPerKey ==
    \A i \in 1..Len(calls) :
        /\ calls[i].name = "get" =>
              \A j \in 1..Len(calls) :
                  MostRecentSet(j, i, calls[i].urlPattern) =>
                      calls[i].returned.value = calls[j].returned.value
        /\ calls[i].name = "getAll" =>
              \A k \in StorageKeys \cup {OldKey} :
                  Cardinality({ n \in 1..Len(calls[i].returned.value) :
                                  calls[i].returned.value[n].urlPattern = k }) <= 1

(***************************************************************************)
(* Claims about the split step of isLikelyId.                              *)
(***************************************************************************)
\* the segment reaches the split step of isLikelyId: no earlier rule of
\* generateUrlPattern or of isLikelyId has classified it
ReachesSplitStep(segment) ==
    /\ ReachesHeuristic(segment)
    /\ \A n \in 1..Len(segment) : segment[n] \in PrintableAsciiSet \ {"%"}
    /\ Len(segment) >= 8
    /\ ToLowerCase(segment) \notin commonPathWords
    /\ \/ Includes(segment, "-")
       \/ Includes(segment, "_")
       \/ Includes(segment, ".")
       \/ MatchesPascalGroups(segment, FALSE)

\* the sub-tokens of a segment that reaches the split step
SubTokens(segment) ==
    IF Includes(segment, "-") THEN Split(segment, {"-"})
    ELSE IF Includes(segment, "_") \/ Includes(segment, ".") THEN Split(segment, {"_", "."})
    ELSE SplitBeforeUpper(segment)

\* every sub-token of the segment passes the word-likelihood test
EverySubTokenIsWord(segment) ==
    \A n \in DOMAIN SubTokens(segment) : isLikelyEnglishWord(SubTokens(segment)[n])

\* the segment is PascalCase with several capitalized tokens
SeveralCapitalizedTokens(segment) ==
    /\ MatchesPascalGroups(segment, FALSE)
    /\ Len(SplitBeforeUpper(segment)) > 1

\* C26: a segment that reaches the split step and yields more than one
\* sub-token is kept as a literal if every sub-token passes the
\* word-likelihood test and becomes {id} otherwise; so a PascalCase segment
\* of several capitalized tokens of which one is not a known word becomes {id}.
C26_LiteralOnlyIfEverySubTokenIsWord ==
    \A i \in Parsed \ Failed :
        \A n \in DOMAIN SegmentsOf(i) :
            ReachesSplitStep(SegmentsOf(i)[n]) /\ Len(SubTokens(SegmentsOf(i)[n])) > 1 =>
                TokensOf(i)[n] = IF EverySubTokenIsWord(SegmentsOf(i)[n])
                                 THEN SegmentsOf(i)[n]
                                 ELSE IdToken

(***************************************************************************)
(* Claims about the store read, the in-flight table and deleteParser.      *)
(***************************************************************************)
\* call r invokes the generator in this step
InvokesGenerator(r) == r \notin DOMAIN promise /\ r \in DOMAIN promise'

\* C27: a call without no_cache never invokes the generator for pattern k at
\* a moment when the store holds a readable entry for k; so a call whose store
\* read missed before a concurrent generation wrote its entry, and which
\* reaches the in-flight lookup after that generation's registration was
\* removed, starts no second generation.
C27_NoInvocationWhileStored ==
    [][\A r \in Reqs :
          InvokesGenerator(r) /\ ~noCache'[r] => StorageGet(urlPattern'[r]) = Null]_vars

\* C28: every response with cached = true for a call whose pattern is k
\* carries the parser of a record that was stored for k; whatever getParser
\* and deleteParser operations have run, get(k) is absent or a record whose
\* urlPattern field is k.
C28_CachedParserIsOfSamePattern ==
    /\ \A r \in Done :
          result[r].ok /\ result[r].value.cached =>
              /\ existingParser[r].urlPattern = urlPattern[r]
              /\ result[r].value.parser = existingParser[r].parser
    /\ \A k \in Patterns \cup CollidingPatterns :
          StorageGet(k) = Null \/ StorageGet(k).urlPattern = k

\* a file of the store is removed in this step
RemovesEntry ==
    /\ DOMAIN store' \subseteq DOMAIN store
    /\ DOMAIN store' # DOMAIN store

\* the promise of generation g settles in this step
Settles(g) ==
    /\ g \in DOMAIN promise
    /\ promise[g].state # "settled"
    /\ promise'[g].state = "settled"

\* the store holds the entry generation g generated
HoldsEntryOf(g) ==
    /\ StorageGet(urlPattern[g]) # Null
    /\ StorageGet(urlPattern[g]).urlPattern = urlPattern[g]
    /\ StorageGet(urlPattern[g]).parser = promise[g].parserCode

\* a delete that removes an entry leaves the in-flight table, the promises
\* and the calls as they are
DeleteLeavesInFlight ==
    [][RemovesEntry =>
          /\ ongoingRequests' = ongoingRequests
          /\ promise' = promise
          /\ awaited' = awaited
          /\ pc' = pc
          /\ result' = result]_vars

\* the calls awaiting a generation receive its outcome when it settles
WaitersReceiveResult ==
    [][\A g \in Reqs :
          Settles(g) =>
              \A r \in Batch(g) : pc'[r] = "done" /\ result'[r] = promise'[g].outcome]_vars

RegistrationRemoved(k) ==
    /\ k \in DOMAIN ongoingRequests
    /\ k \notin DOMAIN ongoingRequests' \/ ongoingRequests'[k] # ongoingRequests[k]

\* call r awaits the promise of a generation another call registered
Joined(r) == r \in DOMAIN awaited /\ awaited[r] # r

\* C30: an in-flight registration is removed only when the generation that
\* registered it finishes, and that step removes this registration alone: it
\* never removes the registration of a generation that is still running, and
\* a call that merely joined never removes or holds a registration.
C30_OnlyOwnerRemovesRegistration ==
    /\ [](\A k \in DOMAIN ongoingRequests :
             /\ urlPattern[ongoingRequests[k]] = k
             /\ awaited[ongoingRequests[k]] = ongoingRequests[k]
             /\ promise[ongoingRequests[k]].state # "settled"
             /\ ~Joined(ongoingRequests[k]))
    /\ [][\A k \in Patterns :
            RegistrationRemoved(k) =>
                /\ Settles(ongoingRequests[k])
                /\ k \notin DOMAIN ongoingRequests'
                /\ \A q \in Patterns \ {k} :
                      q \in DOMAIN ongoingRequests /\ ~Settles(ongoingRequests[q]) =>
                          RegistrationUnchanged(q)]_vars
    /\ [][\A r \in Reqs :
            (Joined(r) /\ pc[r] = "awaitExisting" /\ pc'[r] = "done") =>
                /\ Settles(awaited[r])
                /\ \A k \in Patterns :
                      RegistrationRemoved(k) => ongoingRequests[k] = awaited[r]]_vars

\* C30 witness: two generations of different patterns were in flight; one has
\* finished and its registration is gone, the registration of the other, which
\* is still running, is in the table.
C30_Witness ==
    \E g \in DOMAIN promise, h \in DOMAIN promise :
        /\ urlPattern[g] # urlPattern[h]
        /\ promise[g].state = "settled" /\ pc[g] = "done"
        /\ urlPattern[g] \notin DOMAIN ongoingRequests
        /\ promise[h].state # "settled"
        /\ urlPattern[h] \in DOMAIN ongoingRequests
        /\ ongoingRequests[urlPattern[h]] = h
        /\ atIssue[g].done = {} /\ atIssue[h].done = {}

====
